---- MODULE Spec2Model ----
(***************************************************************************)
(* Model of the match-and-notify pipeline of the peyda backend:            *)
(*   - OTP authentication  (backend/services/auth/service.py)              *)
(*   - idempotency guard   (backend/config/api/decorators.py)              *)
(*   - matching engine     (backend/services/matching/service.py)          *)
(* Each subsystem has its own specification over its own variables; the    *)
(* variables of the other subsystems stay unchanged.                       *)
(***************************************************************************)
EXTENDS Integers, Sequences, FiniteSets, TLC

(***************************************************************************)
(* Bounds of the model (not program constants).                            *)
(***************************************************************************)
MaxRequests == 1
MaxClockSteps == 3
MaxCalls == 2
MaxReports == 2
MaxAgainReports == 3
MaxSends == 6
MaxPublishes == 2
MaxCompares == 4
MaxRateSteps == 5
MaxSpelled == 2

(***************************************************************************)
(* ----------------------------- OTP auth -------------------------------- *)
(***************************************************************************)

\* class constants of OTPAuthService
OTP_EXPIRY_SECONDS == 300
MAX_ATTEMPTS == 3
MAX_RESENDS == 3
RATE_LIMIT_MAX == 5
RATE_LIMIT_TTL == 3600

\* the clock moves in steps of ClockStep seconds
ClockStep == 150

\* the clock of the rate limit moves in steps of RateStep seconds
RateStep == 1000

\* the request ids verify_otp and resend_otp are called with
RequestIds == 1..MaxRequests

\* the request ids send_otp hands out
SessionIds == 1..MaxSends

\* the values secrets.randbelow can make up an OTP of; two distinct codes
\* are enough to tell a right guess from a wrong one
Codes == {"1111", "2222"}

\* phones are sequences of characters
Phone9 == <<"9","1","2","3","4","5","6","7","8","9">>
PhoneInputs == { Phone9, <<"9","1","2">> }
CountryCode == <<"+","9","8">>

\* the ways a caller writes a phone: one number bare, with a leading zero,
\* with the prefix 98 and with the prefix +98, a number that begins with
\* 98, a number that is too short and the empty string
PhoneSpellings ==
    { Phone9,
      <<"0">> \o Phone9,
      <<"9","8">> \o Phone9,
      <<"+","9","8">> \o Phone9,
      <<"9","8","1","2","3","4","5","6","7","8">>,
      <<"9","1","2">>,
      <<>> }

Digits == {"0","1","2","3","4","5","6","7","8","9"}

NoEntry == [none |-> TRUE]

VARIABLES
    now,        \* seconds on the clock of the cache server
    otpStore,   \* cache keys otp:<request_id>  -> session or NoEntry
    rateStore,  \* cache keys otp_rate:<md5(phone)> -> counter or NoEntry
    users,      \* rows of User: id and phone
    issued,     \* number of request ids handed out (token_hex never repeats)
    okCount,    \* history: number of successful verify_otp per request id
    okOtp,      \* history: the code of the successful verify_otp, "" if none
    sentAt,     \* history: the phone, the time and the result of each code SendCodeLogged issued
    last        \* the last operation and its result

otpVars == <<now, otpStore, rateStore, users, issued, okCount, okOtp,
             sentAt, last>>

VARIABLES
    calls,       \* per request: position in wrapper and its locals
    records,     \* committed rows of api_idempotency_record
    rows,        \* committed rows written by the wrapped view
    execs,       \* history: number of times the wrapped view was entered
    firstResp    \* history: per (key, caller) the first response the wrapped
                 \* view gave that was committed with its record

idemVars == <<calls, records, rows, execs, firstResp>>

VARIABLES
    reports,      \* rows of Report, in order of creation (index = id)
    matches,      \* rows of Match
    runs,         \* per report: position of the create-report request
    events,       \* events the last step delivered to the event bus
    bus,          \* what the last call of the bus's publish did
    cmd,          \* result of the last reject-match or update-status command
    rejects,      \* per thread: position in MatchActionCommand.execute and its locals
    scoreIn,      \* two reports handed to _calculate_similarity
    scoreOut      \* the score it returned, -1 before the call

matchVars == <<reports, matches, runs, events, bus, cmd, rejects>>

scoreVars == <<scoreIn, scoreOut>>

VARIABLES
    pubs,             \* per thread: position in RabbitMQEventBus.publish and its locals
    connection_lock,  \* the thread that holds _connection_lock, 0 when free
    connection        \* _connection and _channel, with what was declared on them

busVars == <<pubs, connection_lock, connection>>

VARIABLES
    blacklist,   \* cache entries "blacklist:<sha256 of token>", per token
    loggedOut,   \* history: the tokens for which logout returned True
    authLast     \* the last call of logout or authenticate and its result

authVars == <<blacklist, loggedOut, authLast>>

VARIABLES
    verifs,      \* per thread: position in verify_otp and its locals
    compared     \* history: per request id, the comparisons of a code made

verifyVars == <<verifs, compared>>

vars == <<otpVars, idemVars, matchVars, scoreVars, busVars, authVars,
          verifyVars>>

\* str.startswith
StartsWith(s, p) == Len(s) >= Len(p) /\ SubSeq(s, 1, Len(p)) = p

\* s[n:]
DropFirst(s, n) == SubSeq(s, n + 1, Len(s))

\* str.lstrip('0')
RECURSIVE LStripZeros(_)
LStripZeros(s) ==
    IF Len(s) > 0 /\ Head(s) = "0" THEN LStripZeros(Tail(s)) ELSE s

\* OTPAuthService._validate_phone
validate_phone(phone) ==
    IF Len(phone) = 0 THEN FALSE
    ELSE LET p1 == IF StartsWith(phone, <<"+","9","8">>) THEN DropFirst(phone, 3)
                   ELSE IF StartsWith(phone, <<"9","8">>) THEN DropFirst(phone, 2)
                   ELSE phone
             p2 == LStripZeros(p1)
         IN  /\ Len(p2) = 10
             /\ StartsWith(p2, <<"9">>)
             /\ \A i \in 1..Len(p2) : p2[i] \in Digits

\* f"{country_code}{phone}"
full_phone(country_code, phone) == country_code \o phone

FullPhones ==
    { full_phone(CountryCode, p) :
        p \in { q \in PhoneInputs \cup PhoneSpellings : validate_phone(q) } }

\* the number _validate_phone measures: the phone without its country prefix
\* and without its leading zeros
local_number(phone) ==
    LStripZeros(IF StartsWith(phone, <<"+","9","8">>) THEN DropFirst(phone, 3)
                ELSE IF StartsWith(phone, <<"9","8">>) THEN DropFirst(phone, 2)
                ELSE phone)

\* Cache.get_json on a store: an entry whose TTL has elapsed reads as absent
cache_get(store, key) ==
    IF store[key] # NoEntry /\ now < store[key].expiry THEN store[key] ELSE NoEntry

\* Redis drops the keys whose TTL has elapsed
Expire(store, t) ==
    [k \in DOMAIN store |->
        IF store[k] # NoEntry /\ t >= store[k].expiry THEN NoEntry ELSE store[k]]

\* OTPAuthService._is_rate_limited: the count read from the cache
rate_count(phone) ==
    IF cache_get(rateStore, phone) = NoEntry THEN 0 ELSE cache_get(rateStore, phone).count

\* "if count >= 5" of _is_rate_limited
is_rate_limited_gt(phone) == rate_count(phone) > RATE_LIMIT_MAX
is_rate_limited(phone) == rate_count(phone) >= RATE_LIMIT_MAX

\* the unique constraint of User.phone: a row with the phone exists
phone_taken_never(table, phone) == FALSE
phone_taken(table, phone) == \E u \in table : u.phone = phone

\* the row User.objects.get(phone=phone) returns
user_of(table, phone) == CHOOSE u \in table : u.phone = phone

\* a new User row; ids are handed out in order
new_user(table, phone) == [id |-> Cardinality(table) + 1, phone |-> phone]

\* User.objects.get_or_create(phone=phone) run on its own: the table
\* afterwards, the user and whether it was created
get_or_create(table, phone) ==
    IF \E u \in table : u.phone = phone
    THEN [table |-> table, user |-> user_of(table, phone), created |-> FALSE]
    ELSE [table |-> table \cup {new_user(table, phone)},
          user |-> new_user(table, phone), created |-> TRUE]

\* the attempts check of verify_otp
AttemptsExhausted_gt(data) == data.attempts > MAX_ATTEMPTS
AttemptsExhausted(data) == data.attempts >= MAX_ATTEMPTS

\* the cache after a successful verification: the session is deleted
StoreAfterVerified_keep(store, rid) == store
StoreAfterVerified(store, rid) == [store EXCEPT ![rid] = NoEntry]

\* otp_data['attempts'] = otp_data.get('attempts', 0) + 1 of verify_otp
AttemptsAfterVerify_same(data) == data.attempts
AttemptsAfterVerify(data) == data.attempts + 1

\* the resends check of resend_otp
ResendsExhausted_gt(data) == data.resends > MAX_RESENDS
ResendsExhausted(data) == data.resends >= MAX_RESENDS

\* the attempts value resend_otp stores
AttemptsAfterResend(data) == 0

NoResult == [op |-> "init", rid |-> 0, otp |-> "", code |-> "", published |-> FALSE]

Result(op, rid, otp, code, published) ==
    [op |-> op, rid |-> rid, otp |-> otp, code |-> code, published |-> published]

OtpInit ==
    /\ now = 0
    /\ otpStore = [r \in SessionIds |-> NoEntry]
    /\ rateStore = [p \in FullPhones |-> NoEntry]
    /\ users = {}
    /\ issued = 0
    /\ okCount = [r \in SessionIds |-> 0]
    /\ okOtp = [r \in SessionIds |-> ""]
    /\ sentAt = <<>>
    /\ last = NoResult

\* OTPAuthService.send_otp; the event bus either accepts the event or raises
send_otp(phone, country_code) ==
    LET fp == full_phone(country_code, phone) IN
    IF ~validate_phone(phone) THEN
        /\ last' = Result("send", 0, "", "INVALID_PHONE", FALSE)
        /\ UNCHANGED <<now, otpStore, rateStore, users, issued, okCount, okOtp>>
    ELSE IF is_rate_limited(fp) THEN
        /\ last' = Result("send", 0, "", "TOO_MANY_REQUESTS", FALSE)
        /\ UNCHANGED <<now, otpStore, rateStore, users, issued, okCount, okOtp>>
    ELSE
        /\ issued < MaxSends
        /\ \E otp \in Codes, busOk \in BOOLEAN :
            LET request_id == issued + 1 IN
            /\ rateStore' = [rateStore EXCEPT ![fp] =
                                [count |-> rate_count(fp) + 1,
                                 expiry |-> now + RATE_LIMIT_TTL]]
            /\ otpStore' = [otpStore EXCEPT ![request_id] =
                                [otp |-> otp, phone |-> fp, attempts |-> 0,
                                 resends |-> 0,
                                 expiry |-> now + OTP_EXPIRY_SECONDS]]
            /\ issued' = request_id
            /\ last' = Result("send", request_id, otp,
                              IF busOk THEN "OK" ELSE "PUBLISH_ERROR", busOk)
            /\ UNCHANGED <<now, users, okCount, okOtp>>

SendCode ==
    /\ \E phone \in PhoneInputs : send_otp(phone, CountryCode)
    /\ sentAt' = sentAt
    /\ UNCHANGED <<idemVars, matchVars, scoreVars, busVars, authVars, verifyVars>>

\* send_otp, with the phone and the time of every code it issues written
\* to the history
SendCodeLogged ==
    /\ \E phone \in PhoneInputs : send_otp(phone, CountryCode)
    /\ sentAt' = IF issued' > issued
                 THEN Append(sentAt, [phone |-> otpStore'[issued'].phone, at |-> now,
                                      code |-> last'.code])
                 ELSE sentAt
    /\ UNCHANGED <<idemVars, matchVars, scoreVars, busVars, authVars, verifyVars>>

SendCodeLoggedFew == SendCodeLogged /\ issued' <= MaxRequests

\* send_otp called with the phone written in any of its spellings
SendCodeSpelled ==
    /\ \E phone \in PhoneSpellings : send_otp(phone, CountryCode)
    /\ issued' <= MaxSpelled
    /\ sentAt' = sentAt
    /\ UNCHANGED <<idemVars, matchVars, scoreVars, busVars, authVars, verifyVars>>

\* OTPAuthService.verify_otp
verify_otp(request_id, otp) ==
    LET otp_data == cache_get(otpStore, request_id) IN
    IF otp_data = NoEntry THEN
        /\ last' = Result("verify", request_id, otp, "INVALID_REQUEST_ID", FALSE)
        /\ UNCHANGED <<now, otpStore, rateStore, users, issued, okCount, okOtp, sentAt>>
    ELSE IF AttemptsExhausted(otp_data) THEN
        /\ last' = Result("verify", request_id, otp, "MAX_ATTEMPTS_REACHED", FALSE)
        /\ UNCHANGED <<now, otpStore, rateStore, users, issued, okCount, okOtp, sentAt>>
    ELSE
        LET bumped == [otp_data EXCEPT !.attempts = AttemptsAfterVerify(otp_data),
                                       !.expiry = now + OTP_EXPIRY_SECONDS]
            stored == [otpStore EXCEPT ![request_id] = bumped]
        IN  IF otp_data.otp # otp THEN
                /\ otpStore' = stored
                /\ last' = Result("verify", request_id, otp, "INVALID_OTP", FALSE)
                /\ UNCHANGED <<now, rateStore, users, issued, okCount, okOtp, sentAt>>
            ELSE
                /\ users' = get_or_create(users, otp_data.phone).table
                /\ otpStore' = StoreAfterVerified(stored, request_id)
                /\ okCount' = [okCount EXCEPT ![request_id] = @ + 1]
                /\ okOtp' = [okOtp EXCEPT ![request_id] = otp]
                /\ last' = Result("verify", request_id, otp, "OK", FALSE)
                /\ UNCHANGED <<now, rateStore, issued, sentAt>>

VerifyCode ==
    /\ \E rid \in RequestIds, otp \in Codes : verify_otp(rid, otp)
    /\ UNCHANGED <<idemVars, matchVars, scoreVars, busVars, authVars, verifyVars>>

\* remaining = self.MAX_RESENDS - otp_data['resends'], after the increment
remaining_resends_before(resends) == MAX_RESENDS - resends
remaining_resends(resends) == MAX_RESENDS - (resends + 1)

\* what a resend_otp that stored a fresh code returned: remaining_resends
\* comes with the result when the event went out
ResendResult(request_id, new_otp, busOk, remaining) ==
    [op |-> "resend", rid |-> request_id, otp |-> new_otp,
     code |-> IF busOk THEN "OK" ELSE "PUBLISH_ERROR", published |-> busOk,
     remaining |-> IF busOk THEN remaining ELSE -1]

\* OTPAuthService.resend_otp; the event bus either accepts the event or raises
resend_otp(request_id) ==
    LET otp_data == cache_get(otpStore, request_id) IN
    IF otp_data = NoEntry THEN
        /\ last' = Result("resend", request_id, "", "INVALID_REQUEST_ID", FALSE)
        /\ UNCHANGED <<now, otpStore, rateStore, users, issued, okCount, okOtp, sentAt>>
    ELSE IF ResendsExhausted(otp_data) THEN
        /\ last' = Result("resend", request_id, "", "MAX_RESENDS_REACHED", FALSE)
        /\ UNCHANGED <<now, otpStore, rateStore, users, issued, okCount, okOtp, sentAt>>
    ELSE
        \E new_otp \in Codes, busOk \in BOOLEAN :
            /\ otpStore' = [otpStore EXCEPT ![request_id] =
                                [otp |-> new_otp, phone |-> otp_data.phone,
                                 attempts |-> AttemptsAfterResend(otp_data),
                                 resends |-> otp_data.resends + 1,
                                 expiry |-> now + OTP_EXPIRY_SECONDS]]
            /\ last' = ResendResult(request_id, new_otp, busOk,
                                    remaining_resends(otp_data.resends))
            /\ UNCHANGED <<now, rateStore, users, issued, okCount, okOtp, sentAt>>

ResendCode ==
    /\ \E rid \in RequestIds : resend_otp(rid)
    /\ UNCHANGED <<idemVars, matchVars, scoreVars, busVars, authVars, verifyVars>>

\* time passes on the cache server; keys past their TTL are gone
AdvanceClock ==
    /\ now < MaxClockSteps * ClockStep
    /\ now' = now + ClockStep
    /\ otpStore' = Expire(otpStore, now + ClockStep)
    /\ rateStore' = Expire(rateStore, now + ClockStep)
    /\ last' = Result("clock", 0, "", "", FALSE)
    /\ blacklist' = Expire(blacklist, now + ClockStep)
    /\ UNCHANGED <<users, issued, okCount, okOtp, sentAt>>
    /\ UNCHANGED <<loggedOut, authLast>>
    /\ UNCHANGED <<idemVars, matchVars, scoreVars, busVars, verifyVars>>

\* send_otp as long as it hands out a request id that verify_otp and
\* resend_otp are called with
SendCodeFew == SendCode /\ issued' <= MaxRequests

OtpNext == SendCodeFew \/ VerifyCode \/ ResendCode \/ AdvanceClock

\* send_otp called again and again
RateNext == SendCode \/ AdvanceClock

\* codes requested under several spellings of a phone, then verified
PhoneNext == SendCodeSpelled \/ VerifyCode

\* time passes in long steps, past the TTL of the rate-limit counter
AdvanceClockFar ==
    /\ now < MaxRateSteps * RateStep
    /\ now' = now + RateStep
    /\ otpStore' = Expire(otpStore, now + RateStep)
    /\ rateStore' = Expire(rateStore, now + RateStep)
    /\ last' = Result("clock", 0, "", "", FALSE)
    /\ blacklist' = Expire(blacklist, now + RateStep)
    /\ UNCHANGED <<users, issued, okCount, okOtp, sentAt>>
    /\ UNCHANGED <<loggedOut, authLast>>
    /\ UNCHANGED <<idemVars, matchVars, scoreVars, busVars, verifyVars>>

\* send_otp called again and again over some hours
WindowNext == SendCodeLogged \/ AdvanceClockFar

\* one code, guessed at while time passes
ExpiryNext == SendCodeLoggedFew \/ VerifyCode \/ AdvanceClock

(***************************************************************************)
(* verify_otp, step by step, called from several threads                   *)
(***************************************************************************)

\* the worker threads that run verify_otp
Verifiers == {1, 2}

\* the request ids the threads call verify_otp with
LoginIds == {1, 2}

NoUser == [id |-> 0, phone |-> <<>>]

\* a thread outside verify_otp; request_id and otp are the arguments of the
\* call, otp_data, user and created its locals; conflict records that the
\* insert of get_or_create raised IntegrityError
NoVerifier ==
    [pc |-> "idle", request_id |-> 0, otp |-> "", otp_data |-> NoEntry,
     user |-> NoUser, created |-> FALSE, conflict |-> FALSE]

VerifyInit ==
    /\ verifs = [t \in Verifiers |-> NoVerifier]
    /\ compared = [r \in SessionIds |-> 0]

\* the calls on a request id that are past the attempts check and have not
\* compared the code yet
Uncompared(request_id) ==
    { t \in Verifiers : /\ verifs[t].pc \in {"write", "compare"}
                        /\ verifs[t].request_id = request_id }

\* verify_otp from the call to the attempts check: the session is read from
\* the cache; a call answered INVALID_REQUEST_ID or MAX_ATTEMPTS_REACHED
\* returns here and has changed nothing. The threads hand their results to
\* their callers; last keeps the result of the calls that run as one step.
verify_read(t, request_id, otp) ==
    LET otp_data == cache_get(otpStore, request_id) IN
    /\ verifs[t].pc = "idle"
    /\ IF otp_data = NoEntry \/ AttemptsExhausted(otp_data) THEN
           UNCHANGED verifs
       ELSE
           /\ compared[request_id] + Cardinality(Uncompared(request_id)) < MaxCompares
           /\ verifs' = [verifs EXCEPT ![t] =
                 [NoVerifier EXCEPT !.pc = "write", !.request_id = request_id,
                                    !.otp = otp, !.otp_data = otp_data]]
    /\ UNCHANGED <<otpVars, compared>>

\* the attempts of the session read are incremented and the session is
\* written back with a fresh TTL
verify_write(t) ==
    LET v == verifs[t]
        bumped == [v.otp_data EXCEPT !.attempts = AttemptsAfterVerify(v.otp_data),
                                     !.expiry = now + OTP_EXPIRY_SECONDS]
    IN  /\ v.pc = "write"
        /\ otpStore' = [otpStore EXCEPT ![v.request_id] = bumped]
        /\ verifs' = [verifs EXCEPT ![t].pc = "compare", ![t].otp_data = bumped]
        /\ UNCHANGED <<now, rateStore, users, issued, okCount, okOtp,
                       sentAt, last, compared>>

\* the code supplied is compared with the code of the session read; on a
\* mismatch the call returns INVALID_OTP
verify_compare(t) ==
    LET v == verifs[t] IN
    /\ v.pc = "compare"
    /\ compared' = [compared EXCEPT ![v.request_id] = @ + 1]
    /\ verifs' = [verifs EXCEPT ![t] =
          IF v.otp_data.otp # v.otp THEN NoVerifier ELSE [v EXCEPT !.pc = "get"]]
    /\ UNCHANGED otpVars

\* get_or_create: self.get(phone=phone), at first and again after an
\* IntegrityError of the insert
get_user(t) ==
    LET v == verifs[t] IN
    /\ v.pc \in {"get", "get_again"}
    /\ v.pc = "get_again" => \E u \in users : u.phone = v.otp_data.phone
    /\ verifs' = [verifs EXCEPT ![t] =
          IF \E u \in users : u.phone = v.otp_data.phone
          THEN [v EXCEPT !.pc = "finish",
                         !.user = user_of(users, v.otp_data.phone)]
          ELSE [v EXCEPT !.pc = "create"]]
    /\ UNCHANGED <<otpVars, compared>>

\* get_or_create: the row is inserted; when the unique constraint of phone
\* refuses it, the IntegrityError is caught and the row is read again
create_user(t) ==
    LET v == verifs[t] IN
    /\ v.pc = "create"
    /\ IF phone_taken(users, v.otp_data.phone) THEN
           /\ verifs' = [verifs EXCEPT ![t].pc = "get_again",
                                       ![t].conflict = TRUE]
           /\ users' = users
       ELSE
           /\ users' = users \cup {new_user(users, v.otp_data.phone)}
           /\ verifs' = [verifs EXCEPT ![t].pc = "finish",
                            ![t].user = new_user(users, v.otp_data.phone),
                            ![t].created = TRUE]
    /\ UNCHANGED <<now, otpStore, rateStore, issued, okCount, okOtp,
                   sentAt, last, compared>>

\* the rest of verify_otp: the token is made, the session deleted and the
\* user id returned
verify_finish(t) ==
    LET v == verifs[t] IN
    /\ v.pc = "finish"
    /\ otpStore' = StoreAfterVerified(otpStore, v.request_id)
    /\ okCount' = [okCount EXCEPT ![v.request_id] = @ + 1]
    /\ okOtp' = [okOtp EXCEPT ![v.request_id] = v.otp]
    /\ verifs' = [verifs EXCEPT ![t] = NoVerifier]
    /\ UNCHANGED <<now, rateStore, users, issued, sentAt, last, compared>>

VerifyRead ==
    /\ \E t \in Verifiers, rid \in LoginIds, otp \in Codes : verify_read(t, rid, otp)
    /\ UNCHANGED <<idemVars, matchVars, scoreVars, busVars, authVars>>

VerifyWrite ==
    /\ \E t \in Verifiers : verify_write(t)
    /\ UNCHANGED <<idemVars, matchVars, scoreVars, busVars, authVars>>

VerifyCompare ==
    /\ \E t \in Verifiers : verify_compare(t)
    /\ UNCHANGED <<idemVars, matchVars, scoreVars, busVars, authVars>>

GetUser ==
    /\ \E t \in Verifiers : get_user(t)
    /\ UNCHANGED <<idemVars, matchVars, scoreVars, busVars, authVars>>

CreateUser ==
    /\ \E t \in Verifiers : create_user(t)
    /\ UNCHANGED <<idemVars, matchVars, scoreVars, busVars, authVars>>

VerifyFinish ==
    /\ \E t \in Verifiers : verify_finish(t)
    /\ UNCHANGED <<idemVars, matchVars, scoreVars, busVars, authVars>>

VerifyNext ==
    \/ VerifyRead
    \/ VerifyWrite
    \/ VerifyCompare
    \/ GetUser
    \/ CreateUser
    \/ VerifyFinish

(***************************************************************************)
(* ------------------------- idempotency guard --------------------------- *)
(***************************************************************************)

\* HTTP requests handled by parallel workers
Calls == 1..MaxCalls

\* request.user.id
CallerIds == {1, 2}

\* raw key texts: "" is an absent (or empty) value, "zz" is not a UUID,
\* "k1" and "K1" are two spellings of one UUID
HeaderKeys == {"", "k1", "K1", "zz"}
BodyKeys == {"", "k1"}

\* what the wrapped view does: returns a success response after writing a
\* row, returns an error response without writing, or raises
FuncOutcomes == {"created", "rejected", "raise"}

NoResponse == [status |-> 0, body |-> "none"]

Response(body, status) == [status |-> status, body |-> body]

\* UUID(str(idem_key)) accepts these texts
is_uuid_any(raw) == TRUE
is_uuid(raw) == raw \in {"k1", "K1"}

\* the UUID value of an accepted text
UUID(raw) == IF raw = "K1" THEN "k1" ELSE raw

UUIDs == {"k1"}

\* request.META.get('HTTP_X_IDEMPOTENCY_KEY') or request.data.get('idempotency_key')
idem_key(header, body) == IF header # "" THEN header ELSE body

\* IdempotencyRecord.objects.filter(key=idem_key, user_id=user_id)
existing_none(key, user_id) == {}
existing(key, user_id) == { rec \in records : rec.key = key /\ rec.user_id = user_id }

\* the unique constraint a new IdempotencyRecord row is checked against
unique_conflict(key, user_id) == \E rec \in records : rec.key = key

\* the rows of the wrapped view that are committed when the idempotency
\* record cannot be inserted: none, the transaction is rolled back
rows_on_failure_kept(pending) == pending
rows_on_failure(pending) == {}

\* a request not yet received; raw is the key text as received, key its UUID;
\* ran, wrote, conflict and expect are history: the wrapped view was entered,
\* it wrote a row, the insert hit the unique constraint, and the response an
\* earlier completed request of the same (key, caller) got from the view
IdleCall == [pc |-> "idle", raw |-> "", key |-> "", user_id |-> 0,
             response |-> NoResponse, pending |-> {}, ran |-> FALSE,
             wrote |-> FALSE, conflict |-> FALSE, expect |-> NoResponse]

IdemInit ==
    /\ calls = [c \in Calls |-> IdleCall]
    /\ records = {}
    /\ rows = {}
    /\ execs = 0
    /\ firstResp = [k \in UUIDs, u \in CallerIds |-> NoResponse]

\* wrapper, up to the point where the transaction is opened
wrapper_begin(c, header, body, user_id) ==
    /\ calls[c].pc = "idle"
    /\ IF c = 1 THEN TRUE ELSE calls[c - 1].pc # "idle"
    /\ UNCHANGED <<records, rows, execs, firstResp>>
    /\ LET raw == idem_key(header, body) IN
       IF raw = "" THEN
           calls' = [calls EXCEPT ![c] = [IdleCall EXCEPT !.pc = "done",
                        !.raw = raw, !.user_id = user_id,
                        !.response = Response("IDEMPOTENCY_REQUIRED", 400)]]
       ELSE IF ~is_uuid(raw) THEN
           calls' = [calls EXCEPT ![c] = [IdleCall EXCEPT !.pc = "done",
                        !.raw = raw, !.user_id = user_id,
                        !.response = Response("INVALID_IDEMPOTENCY_KEY", 400)]]
       ELSE
           LET key == UUID(raw)
               expect == IF key \in UUIDs THEN firstResp[key, user_id] ELSE NoResponse
           IN  IF existing(key, user_id) # {} THEN
                   \E rec \in existing(key, user_id) :
                       calls' = [calls EXCEPT ![c] = [IdleCall EXCEPT !.pc = "done",
                                    !.raw = raw, !.key = key, !.user_id = user_id,
                                    !.expect = expect,
                                    !.response = Response(rec.response_body,
                                                          rec.response_status)]]
               ELSE
                   calls' = [calls EXCEPT ![c] = [IdleCall EXCEPT !.pc = "atomic",
                                !.raw = raw, !.key = key, !.user_id = user_id,
                                !.expect = expect]]

\* func(self, request) inside transaction.atomic(): its writes stay pending
wrapper_func(c, outcome) ==
    /\ calls[c].pc = "atomic"
    /\ execs' = execs + 1
    /\ UNCHANGED <<records, rows, firstResp>>
    /\ LET id == ToString(execs + 1) IN
       CASE outcome = "created" ->
                calls' = [calls EXCEPT ![c].pc = "create", ![c].ran = TRUE,
                             ![c].wrote = TRUE,
                             ![c].pending = {[id |-> id, key |-> calls[c].key,
                                              user_id |-> calls[c].user_id]},
                             ![c].response = Response(id, 201)]
         [] outcome = "rejected" ->
                calls' = [calls EXCEPT ![c].pc = "create", ![c].ran = TRUE,
                             ![c].response = Response("REJECTED", 400)]
         [] outcome = "raise" ->
                calls' = [calls EXCEPT ![c].pc = "done", ![c].ran = TRUE,
                             ![c].response = Response("EXCEPTION", 500)]

\* IdempotencyRecord.objects.create(...) and the end of the atomic block:
\* both commit together, or the unique constraint raises IntegrityError and
\* the block is rolled back
wrapper_create(c) ==
    /\ calls[c].pc = "create"
    /\ UNCHANGED execs
    /\ IF unique_conflict(calls[c].key, calls[c].user_id) THEN
           /\ calls' = [calls EXCEPT ![c].pc = "done", ![c].conflict = TRUE,
                           ![c].pending = {},
                           ![c].response = Response("IntegrityError", 500)]
           /\ rows' = rows \cup rows_on_failure(calls[c].pending)
           /\ UNCHANGED <<records, firstResp>>
       ELSE
           /\ records' = records \cup
                  {[key |-> calls[c].key, user_id |-> calls[c].user_id,
                    response_status |-> calls[c].response.status,
                    response_body |-> calls[c].response.body]}
           /\ rows' = rows \cup calls[c].pending
           /\ firstResp' = [firstResp EXCEPT ![calls[c].key, calls[c].user_id] =
                               IF @ = NoResponse THEN calls[c].response ELSE @]
           /\ calls' = [calls EXCEPT ![c].pc = "done", ![c].pending = {}]

\* the worker dies inside the atomic block: the database rolls it back
wrapper_crash(c) ==
    /\ calls[c].pc \in {"atomic", "create"}
    /\ calls' = [calls EXCEPT ![c].pc = "done", ![c].pending = {},
                    ![c].response = Response("CRASHED", 500)]
    /\ rows' = rows \cup rows_on_failure(calls[c].pending)
    /\ UNCHANGED <<records, execs, firstResp>>

IdemBegin ==
    /\ \E c \in Calls, header \in HeaderKeys, body \in BodyKeys, user_id \in CallerIds :
          wrapper_begin(c, header, body, user_id)
    /\ UNCHANGED <<otpVars, matchVars, scoreVars, busVars, authVars, verifyVars>>

IdemFunc ==
    /\ \E c \in Calls, outcome \in FuncOutcomes : wrapper_func(c, outcome)
    /\ UNCHANGED <<otpVars, matchVars, scoreVars, busVars, authVars, verifyVars>>

IdemCreate ==
    /\ \E c \in Calls : wrapper_create(c)
    /\ UNCHANGED <<otpVars, matchVars, scoreVars, busVars, authVars, verifyVars>>

IdemCrash ==
    /\ \E c \in Calls : wrapper_crash(c)
    /\ UNCHANGED <<otpVars, matchVars, scoreVars, busVars, authVars, verifyVars>>

IdemNext == IdemBegin \/ IdemFunc \/ IdemCreate \/ IdemCrash

(***************************************************************************)
(* --------------------------- matching engine --------------------------- *)
(***************************************************************************)

\* settings MATCH_DISPLAY_THRESHOLD, MATCH_NOTIFY_THRESHOLD,
\* MAX_MATCHES_PER_REPORT, DAILY_REPORT_LIMIT and the candidate slice
display_threshold == 40
notify_threshold == 60
max_matches == 20
CANDIDATE_LIMIT == 1000
DAILY_REPORT_LIMIT == 3

\* Python None in a text column and in a number column
NoneStr == "None"
NoneInt == -1

ReportTypes == {"lost", "found"}

\* request.data.get('gender') is stored as received: absent, one of the two
\* choices, or an empty text
Genders == {NoneStr, "male", "female", ""}

\* ages of the create-report requests
Ages == {5, 20}

\* latitudes in units of 0.0001 degree north of a base point; all reports
\* lie on one meridian
Lats == {0}

ReportUsers == {1, 2}

ReportIds == 1..MaxReports

\* _haversine_distance for two points on one meridian, in decimetres:
\* a = sin(dlat/2)^2, c = |dlat|, R * c with R = 6371 km, which is
\* 111.195 km per degree
haversine_distance(lat1, lat2) ==
    LET d == IF lat1 >= lat2 THEN lat1 - lat2 ELSE lat2 - lat1
    IN  (d * 111195) \div 1000

\* MatchingService._calculate_gender_score
calculate_gender_score(gender1, gender2) ==
    IF gender1 = NoneStr \/ gender2 = NoneStr THEN 50
    ELSE IF gender1 = gender2 THEN 100
    ELSE 0

\* MatchingService._calculate_age_score
calculate_age_score(age1, age2) ==
    IF age1 = NoneInt \/ age2 = NoneInt THEN 50
    ELSE LET diff == IF age1 >= age2 THEN age1 - age2 ELSE age2 - age1
         IN  IF diff = 0 THEN 100
             ELSE IF diff <= 2 THEN 90
             ELSE IF diff <= 5 THEN 70
             ELSE IF diff <= 10 THEN 40
             ELSE 10

\* MatchingService._calculate_location_score (distance in decimetres)
calculate_location_score(lat1, lat2) ==
    LET distance == haversine_distance(lat1, lat2)
    IN  IF distance <= 5000 THEN 100
        ELSE IF distance <= 10000 THEN 90
        ELSE IF distance <= 20000 THEN 70
        ELSE IF distance <= 50000 THEN 50
        ELSE IF distance <= 100000 THEN 30
        ELSE 10

\* int(gender*0.40 + age*0.35 + location*0.25): on the sub-score values
\* above the floating-point sum is the exact real value, a multiple of 0.5,
\* so the weights are taken in hundredths; int() truncates
weighted_total_rounded(g, a, l) == (g * 40 + a * 35 + l * 25 + 50) \div 100
weighted_total(g, a, l) == (g * 40 + a * 35 + l * 25) \div 100

\* MatchingService._calculate_similarity
calculate_similarity(report1, report2) ==
    weighted_total(calculate_gender_score(report1.gender, report2.gender),
                   calculate_age_score(report1.age, report2.age),
                   calculate_location_score(report1.latitude, report2.latitude))

\* the gender pre-filter of find_matches_for_report: applied when
\* new_report.gender is truthy
gender_prefilter(new_report, candidate) ==
    IF new_report.gender # NoneStr /\ new_report.gender # ""
    THEN candidate.gender = new_report.gender \/ candidate.gender = NoneStr
    ELSE TRUE

\* Match.objects.filter(Q(lost=new, found=cand) | Q(lost=cand, found=new)).exists()
match_exists(new_id, cand_id) ==
    \E m \in matches :
        \/ (m.report_lost = new_id /\ m.report_found = cand_id)
        \/ (m.report_lost = cand_id /\ m.report_found = new_id)

\* unique_together = ['report_lost', 'report_found'] of Match
unique_together_none(lost_id, found_id) == FALSE
unique_together(lost_id, found_id) ==
    \E m \in matches : m.report_lost = lost_id /\ m.report_found = found_id

is_active_always(report) == TRUE

\* status == Report.Status.ACTIVE, of the new report and in the query for
\* the candidates
is_active(report) == report.status = "active"

\* the candidates find_matches_for_report keeps for the new report, with
\* their scores
Retained(new_id) ==
    LET new_report == reports[new_id]
        opposite_type == IF new_report.report_type = "lost" THEN "found" ELSE "lost"
    IN  { c \in 1..Len(reports) :
            /\ reports[c].report_type = opposite_type
            /\ is_active(reports[c])
            /\ gender_prefilter(new_report, reports[c])
            /\ ~match_exists(new_id, c)
            /\ calculate_similarity(new_report, reports[c]) >= display_threshold }

\* s[:n]
Take(s, n) == SubSeq(s, 1, IF Len(s) <= n THEN Len(s) ELSE n)

\* matches.sort(key=score, reverse=True) over candidates that the query
\* returns newest first: highest score first, newest first among equals
RECURSIVE SortCandidates(_, _)
SortCandidates(new_id, S) ==
    IF S = {} THEN <<>>
    ELSE LET score(c) == calculate_similarity(reports[new_id], reports[c])
             best == CHOOSE c \in S :
                        \A d \in S :
                            \/ score(c) > score(d)
                            \/ (score(c) = score(d) /\ c >= d)
         IN  <<[report_id |-> best, user_id |-> reports[best].user_id,
                similarity_score |-> score(best)]>>
             \o SortCandidates(new_id, S \ {best})

\* user.daily_report_count within one day, for users that own no mawkab
daily_report_count(user_id) ==
    Cardinality({ r \in 1..Len(reports) : reports[r].user_id = user_id })

\* RabbitMQEventBus.MAX_RETRIES
MAX_RETRIES == 3

\* the broker during one call of publish: whether it takes the message at
\* the first, second and third attempt
BrokerRuns == [1..MAX_RETRIES -> BOOLEAN]

\* "last_error = e" in every failed attempt: the attempt whose error is kept
\* when the attempts in failed have failed
last_error_first(failed) == CHOOSE a \in failed : \A o \in failed : a <= o
last_error(failed) == CHOOSE a \in failed : \A o \in failed : a >= o

\* RabbitMQEventBus.publish as a function of the broker: the number of
\* attempts made, whether the message was delivered, and the attempt whose
\* error is raised to the caller (0 when publish returns)
bus_publish(broker) ==
    LET accepted == { a \in 1..MAX_RETRIES : broker[a] }
        first == IF accepted = {} THEN 0
                 ELSE CHOOSE a \in accepted : \A o \in accepted : a <= o
    IN  [attempts |-> IF first = 0 THEN MAX_RETRIES ELSE first,
         delivered |-> first # 0,
         raised |-> IF first = 0 THEN last_error(1..MAX_RETRIES) ELSE 0]

\* what a caller sees of one call of publish: whether the message was
\* delivered and which attempt's error was raised
BusResult(broker) ==
    [delivered |-> bus_publish(broker).delivered,
     raised |-> bus_publish(broker).raised]

\* no call of publish
NoPublish == [delivered |-> FALSE, raised |-> 0]

\* an event as FakeEventBus keeps it and as the broker receives it
Event(event_type, payload) == [event_type |-> event_type, payload |-> payload]

\* BaseCommand.publish_event: the timestamp is added to the payload, the
\* event is handed to the bus and an error of the bus is swallowed
publish_event(evs, event_type, payload, broker) ==
    IF bus_publish(broker).delivered
    THEN evs \cup {Event(event_type, ("timestamp" :> now) @@ payload)}
    ELSE evs

\* the report.created payload of CreateReportCommand.execute
report_created_payload(report_id) ==
    [report_id |-> report_id,
     report_type |-> reports[report_id].report_type,
     user_id |-> reports[report_id].user_id]

\* the create-report requests: lost boys of 5 and 20 reported by user 1,
\* and two found children reported by user 2
ReportRequests ==
    { rq \in [user_id : ReportUsers, report_type : ReportTypes,
              gender : Genders, age : Ages, latitude : Lats] :
        \/ /\ rq.report_type = "lost"
           /\ rq.user_id = 1
           /\ rq.gender = "male"
        \/ /\ rq.report_type = "found"
           /\ rq.user_id = 2
           /\ <<rq.gender, rq.age>> \in {<<NoneStr, 20>>, <<"", 5>>} }

\* what a command returned
Cmd(op, success, error_code) ==
    [op |-> op, success |-> success, error_code |-> error_code]

NoCmd == Cmd("none", FALSE, "")

\* the position of one create-report request; created and after record
\* what the request did: the ids of the Match rows it inserted and the
\* requests that had returned when it arrived
NoRun == [pc |-> "none", todo |-> <<>>, initial_matches |-> <<>>,
          aborted |-> "no", after |-> {}, created |-> <<>>,
          success |-> FALSE, again |-> FALSE]

\* the threads that run MatchActionCommand.execute at the same time
Rejecters == {1, 2}

\* a thread outside execute; match_id and user_id are its arguments, code
\* is what it returned and published whether match.rejected went out
NoReject == [pc |-> "idle", match_id |-> 0, user_id |-> 0, code |-> "",
             published |-> FALSE]

MatchInit ==
    /\ reports = <<>>
    /\ matches = {}
    /\ runs = [r \in ReportIds |-> NoRun]
    /\ events = {}
    /\ bus = NoPublish
    /\ cmd = NoCmd
    /\ rejects = [t \in Rejecters |-> NoReject]

\* CreateReportCommand.execute up to Report.objects.create; a user over the
\* daily limit gets DAILY_LIMIT_REACHED and nothing is written
create_report(user_id, report_type, gender, age, latitude) ==
    /\ Len(reports) + 1 \in DOMAIN runs
    /\ daily_report_count(user_id) < DAILY_REPORT_LIMIT
    /\ reports' = Append(reports,
                     [report_type |-> report_type, status |-> "active",
                      gender |-> gender, age |-> age, latitude |-> latitude,
                      user_id |-> user_id, resolved_at |-> NoneInt])
    /\ runs' = [runs EXCEPT ![Len(reports) + 1] =
                   [NoRun EXCEPT !.pc = "scan",
                                 !.after = { r \in 1..Len(reports) : runs[r].pc = "done" }]]
    /\ events' = {}
    /\ bus' = NoPublish
    /\ UNCHANGED matches

\* find_matches_for_report up to the call of _create_matches
find_matches_for_report(report_id) ==
    /\ runs[report_id].pc = "scan"
    /\ LET found == IF ~is_active(reports[report_id]) THEN <<>>
                    ELSE Take(SortCandidates(report_id,
                                  Retained(report_id)), max_matches)
       IN  runs' = [runs EXCEPT ![report_id].pc =
                                    IF found = <<>> THEN "publish" ELSE "create",
                                ![report_id].todo = found,
                                ![report_id].initial_matches = found]
    /\ events' = {}
    /\ bus' = NoPublish
    /\ UNCHANGED <<reports, matches>>

\* notified_report_id of a new Match: the candidate, the older report
notified_report_new(new_id, candidate_id) == new_id
notified_report(new_id, candidate_id) == candidate_id

\* if candidate.similarity_score >= self._notify_threshold
notifies_always(score) == TRUE
notifies(score) == score >= notify_threshold

\* one round of the loop of _create_matches: Match.objects.create, then the
\* match.found event; an IntegrityError of the insert or an error of the
\* event bus leaves find_matches_for_report, and _find_initial_matches
\* answers it with an empty list
create_matches(report_id, broker) ==
    /\ runs[report_id].pc = "create"
    /\ LET candidate == Head(runs[report_id].todo)
           new_is_lost == reports[report_id].report_type = "lost"
           lost_id == IF new_is_lost THEN report_id ELSE candidate.report_id
           found_id == IF new_is_lost THEN candidate.report_id ELSE report_id
           match == [id |-> Cardinality(matches) + 1,
                     report_lost |-> lost_id, report_found |-> found_id,
                     similarity_score |-> candidate.similarity_score,
                     status |-> "pending",
                     notified_report_id |->
                         notified_report(report_id, candidate.report_id),
                     rejected_at |-> NoneInt,
                     rejected_by_user_id |-> NoneInt]
           notify == notifies(candidate.similarity_score)
           busOk == bus_publish(broker).delivered
           rest == Tail(runs[report_id].todo)
       IN  IF unique_together(lost_id, found_id) THEN
               /\ runs' = [runs EXCEPT ![report_id].pc = "publish",
                                       ![report_id].todo = <<>>,
                                       ![report_id].initial_matches = <<>>,
                                       ![report_id].aborted = "IntegrityError"]
               /\ events' = {}
               /\ bus' = NoPublish
               /\ UNCHANGED matches
           ELSE
               /\ matches' = matches \cup {match}
               /\ bus' = IF notify THEN BusResult(broker) ELSE NoPublish
               /\ IF notify /\ ~busOk THEN
                      /\ runs' = [runs EXCEPT ![report_id].pc = "publish",
                                              ![report_id].todo = <<>>,
                                              ![report_id].initial_matches = <<>>,
                                              ![report_id].aborted = "EventBusError",
                                              ![report_id].created = Append(@, match.id)]
                      /\ events' = {}
                  ELSE
                      /\ runs' = [runs EXCEPT ![report_id].pc =
                                                  IF rest = <<>> THEN "publish" ELSE "create",
                                              ![report_id].todo = rest,
                                              ![report_id].created = Append(@, match.id)]
                      /\ events' =
                            IF notify
                            THEN {Event("match.found",
                                       [match_id |-> match.id,
                                        report_lost_id |-> lost_id,
                                        report_found_id |-> found_id,
                                        notified_user_id |-> candidate.user_id,
                                        similarity_score |-> candidate.similarity_score])}
                            ELSE {}
    /\ UNCHANGED reports

\* the rest of CreateReportCommand.execute: report.created is published with
\* publish_event, which swallows errors; the command returns success
report_created(report_id, broker) ==
    /\ runs[report_id].pc = "publish"
    /\ ~runs[report_id].again
    /\ events' = publish_event({}, "report.created",
                               report_created_payload(report_id), broker)
    /\ bus' = BusResult(broker)
    /\ runs' = [runs EXCEPT ![report_id].pc = "done",
                            ![report_id].success = TRUE]
    /\ UNCHANGED <<reports, matches>>

CreateReport ==
    /\ \E rq \in ReportRequests :
          create_report(rq.user_id, rq.report_type, rq.gender, rq.age, rq.latitude)
    /\ cmd' = NoCmd
    /\ UNCHANGED <<otpVars, idemVars, scoreVars, busVars, authVars, verifyVars,
                   rejects>>

FindMatchesForReport ==
    /\ \E report_id \in DOMAIN runs : find_matches_for_report(report_id)
    /\ cmd' = NoCmd
    /\ UNCHANGED <<otpVars, idemVars, scoreVars, busVars, authVars, verifyVars,
                   rejects>>

CreateMatches ==
    /\ \E report_id \in DOMAIN runs, broker \in BrokerRuns :
          create_matches(report_id, broker)
    /\ cmd' = NoCmd
    /\ UNCHANGED <<otpVars, idemVars, scoreVars, busVars, authVars, verifyVars,
                   rejects>>

ReportCreated ==
    /\ \E report_id \in DOMAIN runs, broker \in BrokerRuns :
          report_created(report_id, broker)
    /\ cmd' = NoCmd
    /\ UNCHANGED <<otpVars, idemVars, scoreVars, busVars, authVars, verifyVars,
                   rejects>>

MatchNext == CreateReport \/ FindMatchesForReport \/ CreateMatches \/ ReportCreated

(***************************************************************************)
(* rejecting a match, resolving and suspending a report                    *)
(***************************************************************************)

\* the users that send commands; user 3 owns no report
Actors == {1, 2, 3}

\* the match ids and report ids a request may name, some of them unknown
MatchIds == 1..MaxReports

MatchActions == {"rejected", "confirmed"}

NewStatuses == {"resolved", "active"}

\* "if action == 'rejected' and not is_lost_owner" of MatchActionCommand
may_reject_either(is_lost_owner, is_found_owner) == is_lost_owner \/ is_found_owner
may_reject(is_lost_owner, is_found_owner) == is_lost_owner

\* the checks of MatchActionCommand.execute, in their order; "" when all pass
reject_error(match_id, user_id, action) ==
    IF action # "rejected" THEN "INVALID_ACTION"
    ELSE IF ~\E m \in matches : m.id = match_id THEN "MATCH_NOT_FOUND"
    ELSE LET match == CHOOSE m \in matches : m.id = match_id
             is_lost_owner == reports[match.report_lost].user_id = user_id
             is_found_owner == reports[match.report_found].user_id = user_id
         IN  IF ~is_lost_owner /\ ~is_found_owner THEN "ACTION_ACCESS_DENIED"
             ELSE IF ~may_reject(is_lost_owner, is_found_owner)
                  THEN "ACTION_ACCESS_DENIED"
             ELSE IF match.status = "rejected" THEN "ALREADY_REJECTED"
             ELSE ""

\* match.save(update_fields=[...]): the row is replaced
saved_as_new_row(table, old, new) == table \cup {new}
saved(table, old, new) == (table \ {old}) \cup {new}

\* MatchActionCommand.execute
reject_match(match_id, user_id, action) ==
    LET error == reject_error(match_id, user_id, action)
    IN  IF error # "" THEN
            /\ cmd' = Cmd("reject_match", FALSE, error)
            /\ events' = {}
            /\ bus' = NoPublish
            /\ UNCHANGED <<reports, matches, runs>>
        ELSE
            LET match == CHOOSE m \in matches : m.id = match_id
            IN  \E broker \in BrokerRuns :
                /\ matches' = saved(matches, match,
                                     [match EXCEPT !.status = "rejected",
                                                   !.rejected_at = now,
                                                   !.rejected_by_user_id = user_id])
                /\ bus' = BusResult(broker)
                /\ events' = publish_event({}, "match.rejected",
                                 [match_id |-> match_id,
                                  report_lost_id |-> match.report_lost,
                                  report_found_id |-> match.report_found,
                                  rejected_by_user_id |-> user_id,
                                  notes |-> ""], broker)
                /\ cmd' = Cmd("reject_match", TRUE, "")
                /\ UNCHANGED <<reports, runs>>

\* "if report.status == Report.Status.SUSPENDED" of UpdateReportStatusCommand
is_suspended_never(report) == FALSE
is_suspended(report) == report.status = "suspended"

\* the checks of UpdateReportStatusCommand.execute, in their order
update_status_error(report_id, user_id, new_status) ==
    IF report_id > Len(reports) THEN "REPORT_NOT_FOUND"
    ELSE IF reports[report_id].user_id # user_id THEN "STATUS_CHANGE_DENIED"
    ELSE IF new_status # "resolved" THEN "INVALID_STATUS"
    ELSE IF reports[report_id].status = "resolved" THEN "ALREADY_RESOLVED"
    ELSE IF is_suspended(reports[report_id]) THEN "REPORT_SUSPENDED"
    ELSE ""

\* UpdateReportStatusCommand.execute
update_report_status(report_id, user_id, new_status) ==
    LET error == update_status_error(report_id, user_id, new_status)
    IN  IF error # "" THEN
            /\ cmd' = Cmd("update_report_status", FALSE, error)
            /\ events' = {}
            /\ bus' = NoPublish
            /\ UNCHANGED <<reports, matches, runs>>
        ELSE \E broker \in BrokerRuns :
            /\ reports' = [reports EXCEPT ![report_id].status = "resolved",
                                          ![report_id].resolved_at = now]
            /\ bus' = BusResult(broker)
            /\ events' = publish_event({}, "report.resolved",
                             [report_id |-> report_id,
                              report_type |-> reports[report_id].report_type,
                              user_id |-> user_id,
                              reason |-> ""], broker)
            /\ cmd' = Cmd("update_report_status", TRUE, "")
            /\ UNCHANGED <<matches, runs>>

\* an administrator sets the status of a report to suspended in ReportAdmin;
\* suspended_at and resolved_at are read-only there
admin_suspend(report_id) ==
    /\ report_id <= Len(reports)
    /\ reports[report_id].status # "suspended"
    /\ reports' = [reports EXCEPT ![report_id].status = "suspended"]
    /\ cmd' = NoCmd
    /\ events' = {}
    /\ bus' = NoPublish
    /\ UNCHANGED <<matches, runs>>

\* MatchActionCommand.execute in a thread, up to the last check: the Match
\* and its reports are read and the checks made on what was read
reject_begin(t, match_id, user_id) ==
    /\ rejects[t].pc = "idle"
    /\ LET error == reject_error(match_id, user_id, "rejected")
       IN  rejects' = [rejects EXCEPT ![t] =
                          [pc |-> IF error = "" THEN "save" ELSE "done",
                           match_id |-> match_id, user_id |-> user_id,
                           code |-> error, published |-> FALSE]]
    /\ UNCHANGED <<reports, matches, runs, events, bus, cmd>>

\* the rest of execute: the three fields are written to the row, whatever
\* its status is by now, match.rejected is published and success returned
reject_save(t, broker) ==
    /\ rejects[t].pc = "save"
    /\ LET match == CHOOSE m \in matches : m.id = rejects[t].match_id
       IN  /\ matches' = saved(matches, match,
                                [match EXCEPT !.status = "rejected",
                                              !.rejected_at = now,
                                              !.rejected_by_user_id = rejects[t].user_id])
           /\ events' = publish_event({}, "match.rejected",
                            [match_id |-> match.id,
                             report_lost_id |-> match.report_lost,
                             report_found_id |-> match.report_found,
                             rejected_by_user_id |-> rejects[t].user_id,
                             notes |-> ""], broker)
    /\ bus' = BusResult(broker)
    /\ cmd' = Cmd("reject_match", TRUE, "")
    /\ rejects' = [rejects EXCEPT ![t].pc = "done",
                                  ![t].code = "OK",
                                  ![t].published = bus_publish(broker).delivered]
    /\ UNCHANGED <<reports, runs>>

RejectBegin ==
    /\ \E t \in Rejecters, match_id \in MatchIds, user_id \in Actors :
          reject_begin(t, match_id, user_id)
    /\ UNCHANGED <<otpVars, idemVars, scoreVars, busVars, authVars, verifyVars>>

RejectSave ==
    /\ \E t \in Rejecters, broker \in BrokerRuns : reject_save(t, broker)
    /\ UNCHANGED <<otpVars, idemVars, scoreVars, busVars, authVars, verifyVars>>

RejectMatch ==
    /\ \E match_id \in MatchIds, user_id \in Actors, action \in MatchActions :
          reject_match(match_id, user_id, action)
    /\ UNCHANGED <<otpVars, idemVars, scoreVars, busVars, authVars, verifyVars,
                   rejects>>

UpdateReportStatus ==
    /\ \E report_id \in ReportIds, user_id \in Actors, new_status \in NewStatuses :
          update_report_status(report_id, user_id, new_status)
    /\ UNCHANGED <<otpVars, idemVars, scoreVars, busVars, authVars, verifyVars,
                   rejects>>

AdminSuspend ==
    /\ \E report_id \in ReportIds : admin_suspend(report_id)
    /\ UNCHANGED <<otpVars, idemVars, scoreVars, busVars, authVars, verifyVars,
                   rejects>>

\* no request is being processed: no create-report request is between its
\* steps and the last result has been returned to its caller
Quiet ==
    /\ \A r \in DOMAIN runs : runs[r].pc \in {"none", "done"}
    /\ cmd = NoCmd
    /\ events = {}
    /\ bus = NoPublish

\* the command returns its result to the caller, who reads it
return_result ==
    /\ \A r \in DOMAIN runs : runs[r].pc \in {"none", "done"}
    /\ (cmd # NoCmd \/ events # {} \/ bus # NoPublish)
    /\ cmd' = NoCmd
    /\ events' = {}
    /\ bus' = NoPublish
    /\ UNCHANGED <<reports, matches, runs>>

ReturnResult ==
    /\ return_result
    /\ UNCHANGED <<otpVars, idemVars, scoreVars, busVars, authVars, verifyVars,
                   rejects>>

\* the requests handled one after the other
SeqCreateReport == Quiet /\ CreateReport

SeqRejectMatch == Quiet /\ RejectMatch

SeqUpdateReportStatus == Quiet /\ UpdateReportStatus

SeqAdminSuspend == Quiet /\ AdminSuspend

\* the owner of a report asks for it to be resolved
OwnerResolves ==
    /\ \E report_id \in 1..Len(reports) :
          update_report_status(report_id, reports[report_id].user_id, "resolved")
    /\ UNCHANGED <<otpVars, idemVars, scoreVars, busVars, authVars, verifyVars,
                   rejects>>

\* reports created one after the other, each with its matching run, while
\* owners resolve reports and an administrator suspends them
PairNext ==
    \/ SeqCreateReport
    \/ FindMatchesForReport
    \/ CreateMatches
    \/ ReportCreated
    \/ ReturnResult
    \/ OwnerResolves
    \/ AdminSuspend

\* MatchingService.find_matches_for_report called once more for the newest
\* report, after the request that created it has returned and before any
\* other report is created
find_matches_again(report_id) ==
    /\ report_id = Len(reports)
    /\ runs[report_id].pc = "done"
    /\ ~runs[report_id].again
    /\ runs' = [runs EXCEPT ![report_id] =
                   [NoRun EXCEPT !.pc = "scan",
                                 !.again = TRUE,
                                 !.after = runs[report_id].after,
                                 !.success = runs[report_id].success]]
    /\ events' = {}
    /\ bus' = NoPublish
    /\ UNCHANGED <<reports, matches>>

\* the second call returns its list, or raises what _create_matches raised
find_matches_returns(report_id) ==
    /\ runs[report_id].pc = "publish"
    /\ runs[report_id].again
    /\ runs' = [runs EXCEPT ![report_id].pc = "done"]
    /\ events' = {}
    /\ bus' = NoPublish
    /\ UNCHANGED <<reports, matches>>

FindMatchesAgain ==
    /\ Quiet
    /\ \E report_id \in DOMAIN runs : find_matches_again(report_id)
    /\ cmd' = NoCmd
    /\ UNCHANGED <<otpVars, idemVars, scoreVars, busVars, authVars, verifyVars,
                   rejects>>

FindMatchesReturns ==
    /\ \E report_id \in DOMAIN runs : find_matches_returns(report_id)
    /\ cmd' = NoCmd
    /\ UNCHANGED <<otpVars, idemVars, scoreVars, busVars, authVars, verifyVars,
                   rejects>>

\* reports created one after the other, and the matching run of the newest
\* report repeated
AgainNext ==
    \/ SeqCreateReport
    \/ FindMatchesForReport
    \/ CreateMatches
    \/ ReportCreated
    \/ ReturnResult
    \/ FindMatchesAgain
    \/ FindMatchesReturns

\* reports created one after the other, and matches rejected by several
\* threads at a time
RejectNext ==
    \/ SeqCreateReport
    \/ FindMatchesForReport
    \/ CreateMatches
    \/ ReportCreated
    \/ ReturnResult
    \/ RejectBegin
    \/ RejectSave

LifeNext ==
    \/ SeqCreateReport
    \/ FindMatchesForReport
    \/ CreateMatches
    \/ ReportCreated
    \/ SeqRejectMatch
    \/ SeqUpdateReportStatus
    \/ SeqAdminSuspend
    \/ ReturnResult

(***************************************************************************)
(* the similarity score as a function of two reports                       *)
(***************************************************************************)

\* ages and latitudes around the steps of the age and distance tables
ScoreAges1 == {NoneInt, 10, 20}
ScoreAges2 == {NoneInt, 10, 11, 12, 13, 15, 16, 20, 21}
ScoreLats1 == {0, 450}
ScoreLats2 == {0, 44, 45, 89, 90, 179, 180, 449, 450, 899, 900}

ScoreIdle == [report1 |-> [gender |-> NoneStr, age |-> NoneInt, latitude |-> 0],
              report2 |-> [gender |-> NoneStr, age |-> NoneInt, latitude |-> 0]]

ScoreInputs ==
    [report1 : [gender : Genders, age : ScoreAges1, latitude : ScoreLats1],
     report2 : [gender : Genders, age : ScoreAges2, latitude : ScoreLats2]]

\* a call of _calculate_similarity
CalculateSimilarity ==
    /\ scoreOut = -1
    /\ scoreOut' = calculate_similarity(scoreIn.report1, scoreIn.report2)
    /\ UNCHANGED <<scoreIn, otpVars, idemVars, matchVars, busVars, authVars, verifyVars>>

(***************************************************************************)
(* RabbitMQEventBus.publish, step by step, called from several threads     *)
(***************************************************************************)

\* RabbitMQEventBus.INITIAL_RETRY_DELAY and MAX_RETRY_DELAY, in tenths of a
\* second
INITIAL_RETRY_DELAY == 5
MAX_RETRY_DELAY == 50

\* the threads that publish
Publishers == {1, 2}

\* min(retry_delay * 2, self.MAX_RETRY_DELAY)
next_retry_delay(retry_delay) ==
    IF retry_delay * 2 < MAX_RETRY_DELAY THEN retry_delay * 2 ELSE MAX_RETRY_DELAY

\* "if attempt < self.MAX_RETRIES - 1" before time.sleep
sleeps_after_every(attempt) == TRUE
sleeps_after(attempt) == attempt < MAX_RETRIES - 1

\* a thread outside publish; attempt, last_error and retry_delay are the
\* locals of publish (last_error 0 is None, k is the error of the k-th
\* attempt); outcomes, sleeps and slept record what the call did: the
\* outcome of each attempt, the number of sleeps and the time slept
NoPublisher ==
    [pc |-> "idle", attempt |-> 0, last_error |-> 0,
     retry_delay |-> INITIAL_RETRY_DELAY, outcomes |-> <<>>,
     sleeps |-> 0, slept |-> 0, calls |-> 0]

\* _connection and _channel after _close_connection_unsafe
NoConnection == [connection |-> "None", channel |-> "None", declared |-> <<>>]

\* what a reconnect declares on the new channel, in this order: the durable
\* exchange, the durable queue peyda_events and its binding with key '#'
Topology == <<"exchange_declare", "queue_declare", "queue_bind">>

\* how far a reconnect may get: 0 when BlockingConnection or channel()
\* raises, k + 1 when the first k declarations went through
Reaches == 0..(Len(Topology) + 1)

\* the probe of _ensure_connection: the connection or the channel is unset
\* or closed, or process_data_events(time_limit=0) raises
need_reconnect_unprobed(conn, healthy) ==
    conn.connection = "None" \/ conn.channel = "None"
need_reconnect(conn, healthy) ==
    conn.connection = "None" \/ conn.channel = "None" \/ ~healthy

\* the connection and channel a reconnect has built when it stops
reconnect(reach) ==
    IF reach = 0 THEN NoConnection
    ELSE [connection |-> "open", channel |-> "open",
          declared |-> SubSeq(Topology, 1, reach - 1)]

\* RabbitMQEventBus._ensure_connection: a connection that passes the probe
\* is kept; otherwise it is closed and a new one built, and a reconnect that
\* raises anywhere closes what it built
ensure_connection(conn, healthy, reach) ==
    IF ~need_reconnect(conn, healthy) THEN conn
    ELSE IF reconnect(reach).declared = Topology THEN reconnect(reach)
    ELSE NoConnection

\* threading.Lock: a thread enters the with block only when no thread is
\* inside one
lock_never_blocks(lock) == TRUE
lock_is_free(lock) == lock = 0

BusInit ==
    /\ pubs = [p \in Publishers |-> NoPublisher]
    /\ connection_lock = 0
    /\ connection = NoConnection

\* the head of the for loop: the next attempt, or "raise last_error" when
\* range(MAX_RETRIES) is used up
loop_head(attempt) == IF attempt < MAX_RETRIES THEN "lock" ELSE "raised"

\* a thread calls publish
publish(p) ==
    /\ pubs[p].pc \in {"idle", "returned", "raised"}
    /\ pubs[p].calls < MaxPublishes
    /\ pubs' = [pubs EXCEPT ![p] =
                   [NoPublisher EXCEPT !.pc = loop_head(0),
                                       !.calls = pubs[p].calls + 1]]
    /\ UNCHANGED <<connection_lock, connection>>

\* with self._connection_lock: the thread waits until the lock is free
acquire(p) ==
    /\ pubs[p].pc = "lock"
    /\ lock_is_free(connection_lock)
    /\ connection_lock' = p
    /\ pubs' = [pubs EXCEPT ![p].pc = "try"]
    /\ UNCHANGED connection

\* whether an attempt goes through: _ensure_connection returns True and
\* basic_publish does not raise
delivers(conn, healthy, reach, sent) ==
    ensure_connection(conn, healthy, reach) # NoConnection /\ sent

\* the body of the with block: _ensure_connection and basic_publish either
\* go through, and publish returns, or raise within their timeouts, and the
\* error is kept and the connection closed; the lock is released on the way
\* out, and after a failure the thread sleeps if another attempt follows
try_publish(p, healthy, reach, sent) ==
    LET ok == delivers(connection, healthy, reach, sent) IN
    /\ pubs[p].pc = "try"
    /\ connection_lock = p
    /\ connection_lock' = 0
    /\ connection' = IF ok THEN ensure_connection(connection, healthy, reach)
                     ELSE NoConnection
    /\ pubs' = [pubs EXCEPT
          ![p].outcomes = Append(@, ok),
          ![p].last_error = IF ok THEN @ ELSE pubs[p].attempt + 1,
          ![p].attempt = IF ok \/ sleeps_after(pubs[p].attempt) THEN @ ELSE @ + 1,
          ![p].pc = IF ok THEN "returned"
                    ELSE IF sleeps_after(pubs[p].attempt) THEN "sleep"
                    ELSE loop_head(pubs[p].attempt + 1)]

\* the attempt of thread p with outcome ok, whatever the broker did
attempt_publish(p, ok) ==
    \E healthy, sent \in BOOLEAN, reach \in Reaches :
        /\ ok = delivers(connection, healthy, reach, sent)
        /\ try_publish(p, healthy, reach, sent)

\* RabbitMQEventBus.close, from a thread that is not publishing
close ==
    /\ lock_is_free(connection_lock)
    /\ connection # NoConnection
    /\ connection' = NoConnection
    /\ UNCHANGED <<pubs, connection_lock>>

\* time.sleep(retry_delay), outside the lock, then the delay is doubled
sleep(p) ==
    /\ pubs[p].pc = "sleep"
    /\ pubs' = [pubs EXCEPT
          ![p].sleeps = @ + 1,
          ![p].slept = @ + pubs[p].retry_delay,
          ![p].retry_delay = next_retry_delay(@),
          ![p].attempt = @ + 1,
          ![p].pc = loop_head(pubs[p].attempt + 1)]
    /\ UNCHANGED <<connection_lock, connection>>

Publish ==
    /\ \E p \in Publishers : publish(p)
    /\ UNCHANGED <<otpVars, idemVars, matchVars, scoreVars, authVars, verifyVars>>

Acquire ==
    /\ \E p \in Publishers : acquire(p)
    /\ UNCHANGED <<otpVars, idemVars, matchVars, scoreVars, authVars, verifyVars>>

AttemptPublish ==
    /\ \E p \in Publishers, ok \in BOOLEAN : attempt_publish(p, ok)
    /\ UNCHANGED <<otpVars, idemVars, matchVars, scoreVars, authVars, verifyVars>>

Sleep ==
    /\ \E p \in Publishers : sleep(p)
    /\ UNCHANGED <<otpVars, idemVars, matchVars, scoreVars, authVars, verifyVars>>

Close ==
    /\ close
    /\ UNCHANGED <<otpVars, idemVars, matchVars, scoreVars, authVars, verifyVars>>

\* the steps thread p takes once it is inside publish
PublisherStep(p) ==
    /\ acquire(p) \/ (\E ok \in BOOLEAN : attempt_publish(p, ok)) \/ sleep(p)
    /\ UNCHANGED <<otpVars, idemVars, matchVars, scoreVars, authVars, verifyVars>>

BusNext == Publish \/ Acquire \/ AttemptPublish \/ Sleep \/ Close

(***************************************************************************)
(* logout, the token blacklist and JWTAuthentication                       *)
(***************************************************************************)

\* TIME_ZONE = 'Asia/Tehran': the offset of the process's local time from
\* UTC, in seconds (+03:30)
LOCAL_UTC_OFFSET == 12600

\* the tokens presented: signed by _generate_jwt_token 30 days before their
\* exp claim, one that SECRET_KEY did not sign, one signed without an exp
\* claim and a string that is no JWT
Tokens ==
    { [user_id |-> 1, exp |-> 150, signed |-> TRUE, parses |-> TRUE],
      [user_id |-> 1, exp |-> 300, signed |-> TRUE, parses |-> TRUE],
      [user_id |-> 2, exp |-> 300, signed |-> TRUE, parses |-> TRUE],
      [user_id |-> 2, exp |-> 300, signed |-> FALSE, parses |-> TRUE],
      [user_id |-> 2, exp |-> NoneInt, signed |-> TRUE, parses |-> TRUE],
      [user_id |-> 0, exp |-> NoneInt, signed |-> FALSE, parses |-> FALSE] }

\* jwt.decode: None when it returns the payload, else the error it raises;
\* the exp claim is verified only when the payload has one
jwt_decode(token) ==
    IF ~token.parses THEN "DecodeError"
    ELSE IF ~token.signed THEN "InvalidTokenError"
    ELSE IF token.exp # NoneInt /\ now >= token.exp THEN "ExpiredSignatureError"
    ELSE NoneStr

no_exp_never(exp) == FALSE

\* not exp, for the exp of payload.get('exp')
no_exp(exp) == exp = NoneInt \/ exp = 0

\* datetime.fromtimestamp(exp): the local wall-clock time of the instant
\* exp, as a naive datetime, in seconds
fromtimestamp(exp) == exp + LOCAL_UTC_OFFSET

\* datetime.utcnow(): the UTC wall-clock time, as a naive datetime
utcnow == now

\* OTPAuthService.is_token_blacklisted
is_token_blacklisted(token) == cache_get(blacklist, token) # NoEntry

AuthResult(op, token, result) == [op |-> op, token |-> token, result |-> result]

NoToken == [user_id |-> 0, exp |-> 0, signed |-> FALSE, parses |-> FALSE]

AuthInit ==
    /\ blacklist = [t \in Tokens |-> NoEntry]
    /\ loggedOut = {}
    /\ authLast = AuthResult("init", NoToken, "")

\* OTPAuthService.logout
logout(token) ==
    IF jwt_decode(token) # NoneStr THEN
        /\ authLast' = AuthResult("logout", token, "False")
        /\ UNCHANGED <<blacklist, loggedOut>>
    ELSE IF no_exp(token.exp) THEN
        /\ authLast' = AuthResult("logout", token, "False")
        /\ UNCHANGED <<blacklist, loggedOut>>
    ELSE
        LET ttl == fromtimestamp(token.exp) - utcnow IN
        IF ttl <= 0 THEN
            /\ authLast' = AuthResult("logout", token, "False")
            /\ UNCHANGED <<blacklist, loggedOut>>
        ELSE
            /\ blacklist' = [blacklist EXCEPT ![token] =
                                [value |-> TRUE, expiry |-> now + ttl]]
            /\ loggedOut' = loggedOut \cup {token}
            /\ authLast' = AuthResult("logout", token, "True")

\* JWTAuthentication.authenticate for a user that exists, is active and is
\* not banned: the blacklist is asked before the token is decoded
authenticate(token) ==
    /\ authLast' = AuthResult("authenticate", token,
                      IF is_token_blacklisted(token) THEN "AuthenticationFailed"
                      ELSE IF jwt_decode(token) # NoneStr THEN "AuthenticationFailed"
                      ELSE "user")
    /\ UNCHANGED <<blacklist, loggedOut>>

Logout ==
    /\ \E token \in Tokens : logout(token)
    /\ UNCHANGED <<otpVars, idemVars, matchVars, scoreVars, busVars, verifyVars>>

Authenticate ==
    /\ \E token \in Tokens : authenticate(token)
    /\ UNCHANGED <<otpVars, idemVars, matchVars, scoreVars, busVars, verifyVars>>

\* OTPAuthService.is_token_blacklisted, asked on its own
IsTokenBlacklisted ==
    /\ \E token \in Tokens :
          authLast' = AuthResult("is_token_blacklisted", token,
                          IF is_token_blacklisted(token) THEN "True" ELSE "False")
    /\ UNCHANGED <<blacklist, loggedOut>>
    /\ UNCHANGED <<otpVars, idemVars, matchVars, scoreVars, busVars, verifyVars>>

AuthNext == Logout \/ Authenticate \/ IsTokenBlacklisted \/ AdvanceClock

(***************************************************************************)
(* --------------------------- specifications ---------------------------- *)
(***************************************************************************)

Init ==
    /\ OtpInit
    /\ IdemInit
    /\ MatchInit
    /\ BusInit
    /\ AuthInit
    /\ VerifyInit
    /\ scoreIn = ScoreIdle
    /\ scoreOut = -1

Next ==
    \/ OtpNext
    \/ IdemNext
    \/ MatchNext
    \/ RejectMatch
    \/ UpdateReportStatus
    \/ AdminSuspend
    \/ ReturnResult
    \/ CalculateSimilarity
    \/ BusNext
    \/ AuthNext
    \/ VerifyNext
    \/ AdvanceClockFar
    \/ SendCodeSpelled
    \/ SendCodeLogged
    \/ OwnerResolves
    \/ FindMatchesAgain
    \/ FindMatchesReturns
    \/ RejectBegin
    \/ RejectSave

Spec == Init /\ [][Next]_vars

\* the OTP service alone
SpecOtp == Init /\ [][OtpNext]_vars

\* repeated requests for a code
SpecRate == Init /\ [][RateNext]_vars

\* the spellings of a phone
SpecPhone == Init /\ [][PhoneNext]_vars

\* matching runs among status changes
SpecPair == Init /\ [][PairNext]_vars

\* the tables empty, with room for MaxAgainReports reports
InitAgain ==
    /\ OtpInit
    /\ IdemInit
    /\ BusInit
    /\ AuthInit
    /\ VerifyInit
    /\ scoreIn = ScoreIdle
    /\ scoreOut = -1
    /\ reports = <<>>
    /\ matches = {}
    /\ runs = [r \in 1..MaxAgainReports |-> NoRun]
    /\ events = {}
    /\ bus = NoPublish
    /\ cmd = NoCmd
    /\ rejects = [t \in Rejecters |-> NoReject]

SpecAgain == InitAgain /\ [][AgainNext]_vars

SpecReject == Init /\ [][RejectNext]_vars

\* the lifetime of a session
SpecExpiry == Init /\ [][ExpiryNext]_vars

\* requests for a code over some hours
SpecWindow == Init /\ [][WindowNext]_vars

\* the idempotency guard alone
SpecIdem == Init /\ [][IdemNext]_vars

\* report creation and matching alone
SpecMatch == Init /\ [][MatchNext]_vars

\* reports and matches with the commands that change their status, the
\* requests handled one after the other
SpecLife == Init /\ [][LifeNext]_vars

\* threads inside RabbitMQEventBus.publish: a thread inside publish is
\* scheduled again and again, and every attempt ends within its timeouts
SpecBus ==
    /\ Init
    /\ [][BusNext]_vars
    /\ \A p \in Publishers : WF_vars(PublisherStep(p))

\* verify_otp on several threads at once, after send_otp has been called
\* for one phone once per request id of LoginIds, each call with another
\* code
LoginSessions ==
    [r \in SessionIds |->
        IF r \in LoginIds
        THEN [otp |-> IF r = 1 THEN "1111" ELSE "2222",
              phone |-> full_phone(CountryCode, Phone9),
              attempts |-> 0, resends |-> 0,
              expiry |-> OTP_EXPIRY_SECONDS]
        ELSE NoEntry]

InitVerify ==
    /\ now = 0
    /\ otpStore = LoginSessions
    /\ rateStore = [p \in FullPhones |->
                       IF p = full_phone(CountryCode, Phone9)
                       THEN [count |-> Cardinality(LoginIds),
                             expiry |-> RATE_LIMIT_TTL]
                       ELSE NoEntry]
    /\ users = {}
    /\ issued = Cardinality(LoginIds)
    /\ okCount = [r \in SessionIds |-> 0]
    /\ okOtp = [r \in SessionIds |-> ""]
    /\ sentAt = [i \in 1..Cardinality(LoginIds) |->
                    [phone |-> full_phone(CountryCode, Phone9), at |-> 0,
                     code |-> "OK"]]
    /\ last = Result("send", Cardinality(LoginIds), "2222", "OK", TRUE)
    /\ IdemInit
    /\ MatchInit
    /\ BusInit
    /\ AuthInit
    /\ VerifyInit
    /\ scoreIn = ScoreIdle
    /\ scoreOut = -1

SpecVerify == InitVerify /\ [][VerifyNext]_vars

\* logout and authentication while the clock advances
SpecAuth == Init /\ [][AuthNext]_vars

\* _calculate_similarity on every pair of inputs
InitScore ==
    /\ OtpInit
    /\ IdemInit
    /\ MatchInit
    /\ BusInit
    /\ AuthInit
    /\ VerifyInit
    /\ scoreIn \in ScoreInputs
    /\ scoreOut = -1

SpecScore == InitScore /\ [][CalculateSimilarity]_vars

(***************************************************************************)
(* ------------------------------- claims -------------------------------- *)
(***************************************************************************)

\* C1: a request id is verified successfully at most once; after the
\* successful verify_otp its session is gone from the cache, and every later
\* verify_otp on it, with whatever code, answers INVALID_REQUEST_ID.
C1_VerifyOnce ==
    /\ \A r \in RequestIds : okCount[r] <= 1
    /\ \A r \in RequestIds : okCount[r] >= 1 => otpStore[r] = NoEntry
    /\ (last.op = "verify" /\ last.code # "OK" /\ okCount[last.rid] >= 1)
          => last.code = "INVALID_REQUEST_ID"

\* C1 witness: the code that verified a request id was presented again and
\* was answered INVALID_REQUEST_ID.
C1_Witness ==
    /\ last.op = "verify"
    /\ last.code = "INVALID_REQUEST_ID"
    /\ okCount[last.rid] = 1
    /\ okOtp[last.rid] = last.otp

\* the step is a resend_otp on r that stored a fresh code
ResendStored(r) ==
    /\ last'.op = "resend"
    /\ last'.rid = r
    /\ last'.code \in {"OK", "PUBLISH_ERROR"}

\* verify_otp on a live session whose attempts are used up is refused and
\* changes nothing, whatever the code
RefusedAtMax ==
    \A r \in RequestIds :
        ( /\ cache_get(otpStore, r) # NoEntry
          /\ otpStore[r].attempts = MAX_ATTEMPTS
          /\ last'.op = "verify"
          /\ last'.rid = r )
        => /\ last'.code = "MAX_ATTEMPTS_REACHED"
           /\ otpStore' = otpStore

\* C2 as stated: the stored attempts of a session never decrease over any
\* operation, and verify_otp is refused once attempts = MAX_ATTEMPTS.
C2_Original ==
    [][ /\ \A r \in RequestIds :
              (otpStore[r] # NoEntry /\ otpStore'[r] # NoEntry)
                  => otpStore'[r].attempts >= otpStore[r].attempts
        /\ RefusedAtMax ]_vars

\* C2 amended: the stored attempts of a session never decrease except by a
\* resend_otp that stores a fresh code (it resets them to 0), and verify_otp
\* is refused with MAX_ATTEMPTS_REACHED once attempts = MAX_ATTEMPTS, also
\* when the code supplied is the right one.
C2_AttemptsMonotoneBetweenResends ==
    [][ /\ \A r \in RequestIds :
              (otpStore[r] # NoEntry /\ otpStore'[r] # NoEntry /\ ~ResendStored(r))
                  => otpStore'[r].attempts >= otpStore[r].attempts
        /\ \A r \in RequestIds :
              (otpStore[r] # NoEntry /\ ResendStored(r))
                  => otpStore'[r].attempts = 0
        /\ RefusedAtMax ]_vars

\* C2 witness: the right code was refused because the attempts were used up.
C2_Witness ==
    /\ last.op = "verify"
    /\ last.code = "MAX_ATTEMPTS_REACHED"
    /\ otpStore[last.rid] # NoEntry
    /\ otpStore[last.rid].otp = last.otp
    /\ otpStore[last.rid].attempts = MAX_ATTEMPTS

\* the committed rows the wrapped view wrote for one (key, caller)
RowsOf(key, user_id) == { row \in rows : row.key = key /\ row.user_id = user_id }

\* C3: when a request arrives after an earlier request with the same
\* (key, caller) has completed with a response of the wrapped view, the view
\* is not entered again, the response equals that first response (success or
\* error), and the view's write is committed at most once per (key, caller).
C3_SequentialReplay ==
    /\ \A k \in UUIDs, u \in CallerIds : Cardinality(RowsOf(k, u)) <= 1
    /\ \A c \in Calls :
          (calls[c].pc = "done" /\ calls[c].expect # NoResponse)
              => /\ calls[c].response = calls[c].expect
                 /\ ~calls[c].ran

\* C3 witness: a second request was answered with the success response the
\* view gave the first request, without entering the view again; the view
\* ran once and its one row is committed.
C3_Witness ==
    /\ \E c \in Calls :
          /\ calls[c].pc = "done"
          /\ calls[c].expect # NoResponse
          /\ calls[c].expect.status = 201
          /\ calls[c].response = calls[c].expect
          /\ ~calls[c].ran
    /\ execs = 1
    /\ Cardinality(rows) = 1

\* C4 as stated: when two requests with the same (key, caller) race, the
\* write is committed at most once and the request that loses the uniqueness
\* conflict answers with the stored response of the winner.
C4_Original ==
    /\ \A k \in UUIDs, u \in CallerIds : Cardinality(RowsOf(k, u)) <= 1
    /\ \A c \in Calls :
          ( /\ calls[c].pc = "done"
            /\ calls[c].conflict
            /\ existing(calls[c].key, calls[c].user_id) # {} )
          => \E rec \in existing(calls[c].key, calls[c].user_id) :
                calls[c].response = Response(rec.response_body, rec.response_status)

\* C5: the rows written by the wrapped view and the idempotency record of
\* the request are committed together or not at all: every committed row has
\* the record that stores the response naming it, every record of a success
\* response has its row, and a request that failed has left no row.
C5_Atomic ==
    /\ \A row \in rows :
          \E rec \in records :
              /\ rec.key = row.key
              /\ rec.user_id = row.user_id
              /\ rec.response_status = 201
              /\ rec.response_body = row.id
    /\ \A rec \in records :
          rec.response_status = 201
              => \E row \in RowsOf(rec.key, rec.user_id) : row.id = rec.response_body

\* C5 witness: a request whose view wrote a row failed at the insert of its
\* record and finished, while another request's row and record are committed.
C5_Witness ==
    /\ \E c \in Calls :
          /\ calls[c].pc = "done"
          /\ calls[c].wrote
          /\ calls[c].conflict
    /\ rows # {}

\* C6 as stated: records are keyed by (key, caller), so a request never fails
\* on the record of another caller, and a replayed response is the caller's
\* own stored response.
C6_Original ==
    /\ \A c \in Calls :
          (calls[c].pc = "done" /\ calls[c].conflict)
              => existing(calls[c].key, calls[c].user_id) # {}
    /\ \A c \in Calls :
          (calls[c].pc = "done" /\ calls[c].key # "" /\ ~calls[c].ran
             /\ calls[c].response.body # "CRASHED")
              => \E rec \in existing(calls[c].key, calls[c].user_id) :
                    calls[c].response = Response(rec.response_body, rec.response_status)

\* key texts that are not the text of a UUID
MalformedTexts == {"zz"}

\* C7: a request without a key is answered IDEMPOTENCY_REQUIRED and a request
\* whose key is not a UUID is answered INVALID_IDEMPOTENCY_KEY; neither
\* enters the wrapped view, and no record or row is stored for them.
C7_KeyValidation ==
    /\ \A c \in Calls :
          (calls[c].pc # "idle" /\ calls[c].raw = "")
              => /\ calls[c].pc = "done"
                 /\ calls[c].response = Response("IDEMPOTENCY_REQUIRED", 400)
                 /\ ~calls[c].ran
    /\ \A c \in Calls :
          (calls[c].pc # "idle" /\ calls[c].raw \in MalformedTexts)
              => /\ calls[c].pc = "done"
                 /\ calls[c].response = Response("INVALID_IDEMPOTENCY_KEY", 400)
                 /\ ~calls[c].ran
    /\ \A rec \in records : rec.key \in UUIDs
    /\ \A row \in rows : row.key \in UUIDs
    /\ Cardinality(records) <= Cardinality({ c \in Calls : calls[c].ran })

\* C7 witness: one request without a key and one with a malformed key were
\* answered.
C7_Witness ==
    /\ \E c \in Calls : calls[c].pc = "done" /\ calls[c].raw = ""
    /\ \E c \in Calls : calls[c].pc = "done" /\ calls[c].raw \in MalformedTexts
    /\ execs = 0

\* C8: in every reachable state, whatever the order and interleaving of
\* report creations and matching runs, no two Match rows are about the same
\* unordered pair of a lost and a found report.
C8_NoDuplicateMatch ==
    \A m1 \in matches, m2 \in matches :
        ({m1.report_lost, m1.report_found} = {m2.report_lost, m2.report_found})
            => (m1 = m2)

\* a lost and a found report were matched concurrently, each run found the
\* other report, and the insert of the second run was refused
C8_Witness ==
    \E a \in ReportIds, b \in ReportIds :
        /\ a # b
        /\ runs[a].pc = "done" /\ runs[b].pc = "done"
        /\ a \notin runs[b].after /\ b \notin runs[a].after
        /\ runs[a].aborted = "no"
        /\ runs[b].aborted = "IntegrityError"
        /\ Cardinality({ m \in matches :
                            {m.report_lost, m.report_found} = {a, b} }) = 1

\* what find_matches_for_report decides for a new report and one candidate
\* of the opposite type when no Match row exists yet
C9_Detects(new_report, candidate) ==
    /\ gender_prefilter(new_report, candidate)
    /\ calculate_similarity(new_report, candidate) >= display_threshold

\* C9: detection is commutative: for an active report n created after an
\* active report c of the opposite type had been processed, the Match of the
\* pair exists exactly if it would have been created with c arriving after
\* n, and its score is the score in either order.
C9_Original ==
    \A n \in 1..Len(reports), c \in 1..Len(reports) :
        (/\ c \in runs[n].after
         /\ runs[n].pc = "done"
         /\ runs[n].aborted = "no"
         /\ reports[c].report_type # reports[n].report_type)
        => /\ calculate_similarity(reports[n], reports[c])
                = calculate_similarity(reports[c], reports[n])
           /\ match_exists(n, c) <=> C9_Detects(reports[c], reports[n])
           /\ \A m \in matches :
                 ({m.report_lost, m.report_found} = {n, c})
                    => m.similarity_score
                          = calculate_similarity(reports[c], reports[n])

\* the sub-scores as the tables give them
C10_Gender(g1, g2) ==
    CASE g1 = NoneStr \/ g2 = NoneStr -> 50
      [] g1 # NoneStr /\ g2 # NoneStr /\ g1 = g2 -> 100
      [] OTHER -> 0

C10_Age(a1, a2) ==
    IF NoneInt \in {a1, a2} THEN 50
    ELSE CHOOSE s \in {100, 90, 70, 40, 10} :
            LET diff == IF a1 - a2 < 0 THEN a2 - a1 ELSE a1 - a2
            IN  /\ (s = 100) <=> (diff = 0)
                /\ (s = 90) <=> (0 < diff /\ diff <= 2)
                /\ (s = 70) <=> (2 < diff /\ diff <= 5)
                /\ (s = 40) <=> (5 < diff /\ diff <= 10)
                /\ (s = 10) <=> (10 < diff)

\* buckets of 0.5, 1, 2, 5 and 10 km, the distance in decimetres
C10_Location(l1, l2) ==
    LET dm == haversine_distance(l1, l2)
        buckets == <<5000, 10000, 20000, 50000, 100000>>
        scores == <<100, 90, 70, 50, 30>>
        within == { i \in 1..5 : dm <= buckets[i] }
    IN  IF within = {} THEN 10
        ELSE scores[CHOOSE i \in within : \A j \in within : i <= j]

\* the integer part of hundredths / 100
C10_Floor(hundredths) ==
    CHOOSE n \in 0..100 : 100 * n <= hundredths /\ hundredths < 100 * (n + 1)

\* C10: the similarity score of two reports is the integer part of
\* 0.40*gender + 0.35*age + 0.25*location over the unrounded sub-scores of
\* the tables; sub-scores (100,100,100) give 100 and (100,10,100) give 68.
C10_Score ==
    (scoreOut # -1) =>
        LET g == C10_Gender(scoreIn.report1.gender, scoreIn.report2.gender)
            a == C10_Age(scoreIn.report1.age, scoreIn.report2.age)
            l == C10_Location(scoreIn.report1.latitude, scoreIn.report2.latitude)
        IN  /\ scoreOut = C10_Floor(40 * g + 35 * a + 25 * l)
            /\ (g = 100 /\ a = 100 /\ l = 100) => (scoreOut = 100)
            /\ (g = 100 /\ a = 10 /\ l = 100) => (scoreOut = 68)

\* the score of two reports of one gender, more than ten years and less
\* than 500 m apart, has been computed as 68
C10_Witness ==
    /\ scoreOut = 68
    /\ scoreIn.report1.gender = "male" /\ scoreIn.report2.gender = "male"
    /\ scoreIn.report1.age = 10 /\ scoreIn.report2.age = 21
    /\ scoreIn.report1.latitude = 0 /\ scoreIn.report2.latitude = 44

\* the match.found events about one Match row among the events of a step
FoundEvents(evs, m) ==
    { e \in evs : e.event_type = "match.found" /\ e.payload.match_id = m.id }

\* the Match rows inserted by a step
NewMatches == { m \in matches' : \A o \in matches : o.id # m.id }

\* the step inserted the row and the bus raised when match.found was
\* published for it
BusFailedAt(m) ==
    \E r \in ReportIds :
        /\ runs[r].aborted = "no"
        /\ runs'[r].aborted = "EventBusError"
        /\ runs'[r].created = Append(runs[r].created, m.id)
        /\ bus'.raised = MAX_RETRIES

C12_NotifiesOlderReport ==
    /\ \A r \in ReportIds, m \in matches :
          (\E i \in 1..Len(runs[r].created) : runs[r].created[i] = m.id) =>
              /\ r \in {m.report_lost, m.report_found}
              /\ m.notified_report_id \in {m.report_lost, m.report_found}
              /\ m.notified_report_id # r
    /\ \A e \in events :
          (e.event_type = "match.found") =>
              \E m \in matches :
                  /\ m.id = e.payload.match_id
                  /\ e.payload.notified_user_id = reports[m.notified_report_id].user_id
                  /\ e.payload.report_lost_id = m.report_lost
                  /\ e.payload.report_found_id = m.report_found

\* the run of a found report has just matched it with an older lost report
\* of another user and the event for that user has been published
C12_Witness ==
    \E r \in ReportIds, m \in matches :
        /\ runs[r].created = <<m.id>>
        /\ m.report_found = r
        /\ m.report_lost \in runs[r].after
        /\ reports[m.report_lost].user_id # reports[r].user_id
        /\ FoundEvents(events, m) # {}

\* C13: RejectMatch succeeds only when the action is "rejected", the match
\* exists, the actor owns the lost report of the pair and the match is
\* pending; the owner of only the found report and an actor owning neither
\* report get ACTION_ACCESS_DENIED, the lost report's owner rejecting a
\* rejected match gets ALREADY_REJECTED, and a failed RejectMatch changes no
\* Match and publishes no event.
C13_RejectRules ==
    [][\A match_id \in MatchIds, user_id \in Actors, action \in MatchActions :
          reject_match(match_id, user_id, action) =>
              LET known == \E m \in matches : m.id = match_id
                  row == CHOOSE m \in matches : m.id = match_id
                  owns_lost == known /\ reports[row.report_lost].user_id = user_id
                  owns_found == known /\ reports[row.report_found].user_id = user_id
              IN  /\ cmd'.op = "reject_match"
                  /\ cmd'.success <=>
                        (action = "rejected" /\ known /\ owns_lost
                            /\ row.status = "pending")
                  /\ (action = "rejected" /\ known /\ owns_found /\ ~owns_lost)
                        => (cmd'.error_code = "ACTION_ACCESS_DENIED")
                  /\ (action = "rejected" /\ known /\ ~owns_found /\ ~owns_lost)
                        => (cmd'.error_code = "ACTION_ACCESS_DENIED")
                  /\ (action = "rejected" /\ known /\ owns_lost
                            /\ row.status = "rejected")
                        => (cmd'.error_code = "ALREADY_REJECTED")
                  /\ ~cmd'.success =>
                        (matches' = matches /\ reports' = reports /\ events' = {})
                  /\ cmd'.success =>
                        /\ \E m \in matches' :
                              m.id = match_id /\ m.status = "rejected"
                                 /\ m.rejected_by_user_id = user_id
                        /\ \A m \in matches : (m.id # match_id) => (m \in matches')
      ]_vars

\* the lost report's owner has rejected a match and tried to reject it again
C13_Witness ==
    /\ cmd = Cmd("reject_match", FALSE, "ALREADY_REJECTED")
    /\ \E m \in matches :
          /\ m.status = "rejected"
          /\ m.rejected_by_user_id = reports[m.report_lost].user_id
          /\ reports[m.report_found].user_id # reports[m.report_lost].user_id

AdminStep == \E report_id \in ReportIds : admin_suspend(report_id)

\* C15: over the create-report and update-status commands resolved_at is
\* set exactly on resolved reports (a command keeps it so and a new report
\* has it so); the only change a command makes to the status of a report is
\* active to resolved, on the request of its owner; and an update-status
\* request for a suspended or a resolved report is answered REPORT_SUSPENDED
\* or ALREADY_RESOLVED and changes nothing.
C15_ReportStatus ==
    [][/\ ~AdminStep =>
             \A r \in 1..Len(reports') :
                 IF r > Len(reports)
                 THEN /\ reports'[r].status = "active"
                      /\ reports'[r].resolved_at = NoneInt
                 ELSE \/ reports'[r] = reports[r]
                      \/ /\ reports[r].status = "active"
                         /\ reports'[r].status = "resolved"
                         /\ reports'[r].resolved_at # NoneInt
                         /\ cmd' = Cmd("update_report_status", TRUE, "")
                         /\ update_report_status(r, reports[r].user_id, "resolved")
       /\ \A report_id \in ReportIds, user_id \in Actors, new_status \in NewStatuses :
             update_report_status(report_id, user_id, new_status) =>
                 LET known == report_id <= Len(reports)
                     owner == known /\ reports[report_id].user_id = user_id
                     asked == owner /\ new_status = "resolved"
                 IN  /\ cmd'.success <=>
                           (asked /\ reports[report_id].status = "active")
                     /\ (asked /\ reports[report_id].status = "suspended")
                           => (cmd'.error_code = "REPORT_SUSPENDED")
                     /\ (asked /\ reports[report_id].status = "resolved")
                           => (cmd'.error_code = "ALREADY_RESOLVED")
                     /\ ~cmd'.success => (reports' = reports /\ events' = {})
                     /\ (known /\ ~owner) => ~cmd'.success
      ]_vars

\* one report has been resolved by its owner, and the owner of another
\* report, which an administrator suspended, was refused
C15_Witness ==
    /\ cmd = Cmd("update_report_status", FALSE, "REPORT_SUSPENDED")
    /\ \E r \in 1..Len(reports), q \in 1..Len(reports) :
          /\ reports[r].status = "resolved"
          /\ reports[r].resolved_at # NoneInt
          /\ reports[q].status = "suspended"
          /\ reports[q].resolved_at = NoneInt

\* a step in which send_otp answered a call with a valid phone: the rate
\* limit is all that can refuse it. `issued` counts the calls that were not
\* refused, and the clock stays inside the first hour, so a call made at
\* issued = k < 5 is the (k+1)-th call for the phone within the hour and a
\* call made at issued = 5 is the sixth or a later one.
ValidSend ==
    /\ SendCode
    /\ last'.code # "INVALID_PHONE"
    /\ now < RATE_LIMIT_TTL

Unreachable(broker) == \A a \in 1..MAX_RETRIES : ~broker[a]

\* C17: when the broker refuses every attempt, publish raises the error of
\* the last attempt and nothing is delivered. Raised while report.created is
\* published, the error is swallowed: the command returns success and the
\* report is stored unchanged. Raised while match.found is published, the
\* error ends the matching only: the command goes on to publish
\* report.created. A command that has returned has returned success and its
\* report is stored.
C17_BrokerDownReportStays ==
    /\ [](\A id \in ReportIds :
            runs[id].pc = "done" => runs[id].success /\ id <= Len(reports))
    /\ [][ \A id \in ReportIds, broker \in BrokerRuns :
             Unreachable(broker) =>
               /\ report_created(id, broker) =>
                     /\ bus' = [delivered |-> FALSE, raised |-> MAX_RETRIES]
                     /\ events' = {}
                     /\ runs'[id].pc = "done"
                     /\ runs'[id].success
                     /\ reports' = reports
                     /\ id <= Len(reports')
               /\ create_matches(id, broker) /\ bus' # NoPublish =>
                     /\ bus' = [delivered |-> FALSE, raised |-> MAX_RETRIES]
                     /\ events' = {}
                     /\ runs'[id].pc = "publish"
                     /\ runs'[id].aborted = "EventBusError"
                     /\ reports' = reports ]_vars

\* a command has returned success although both of its publishes, match.found
\* and report.created, were refused by the broker three times
C17_Witness ==
    \E id \in ReportIds :
        /\ runs[id].pc = "done"
        /\ runs[id].success
        /\ runs[id].aborted = "EventBusError"
        /\ bus = [delivered |-> FALSE, raised |-> MAX_RETRIES]
        /\ events = {}
        /\ id <= Len(reports)
        /\ reports[id].status = "active"

\* thread p is inside publish
Publishing(p) == pubs[p].pc \in {"lock", "try", "sleep"}

\* the attempts of a call that failed
FailedAttempts(p) ==
    { a \in 1..Len(pubs[p].outcomes) : ~pubs[p].outcomes[a] }

\* what a call of publish has done so far is within the retry schedule
WithinSchedule(p) ==
    LET c == pubs[p]
        tries == Len(c.outcomes)
    IN  /\ tries <= MAX_RETRIES
        /\ \A a \in 1..tries : c.outcomes[a] => a = tries /\ c.pc = "returned"
        /\ c.sleeps <= MAX_RETRIES - 1
        /\ c.sleeps = (IF c.pc \in {"lock", "try"} THEN tries
                       ELSE IF tries = 0 THEN 0 ELSE tries - 1)
        /\ c.slept = (IF c.sleeps = 0 THEN 0
                      ELSE IF c.sleeps = 1 THEN INITIAL_RETRY_DELAY
                      ELSE INITIAL_RETRY_DELAY + 2 * INITIAL_RETRY_DELAY)
        /\ c.pc = "returned" => tries >= 1 /\ c.outcomes[tries]
        /\ c.pc = "raised" =>
              /\ tries = MAX_RETRIES
              /\ FailedAttempts(p) = 1..MAX_RETRIES
              /\ c.last_error = MAX_RETRIES
              /\ c.sleeps = MAX_RETRIES - 1
        /\ c.pc \in {"returned", "raised"} =>
              \A broker \in BrokerRuns :
                  (\A a \in 1..tries : broker[a] = c.outcomes[a]) =>
                      bus_publish(broker) =
                          [attempts |-> tries,
                           delivered |-> c.pc = "returned",
                           raised |-> IF c.pc = "raised" THEN c.last_error ELSE 0]

\* C18: every call of publish terminates, by returning or by raising. A call
\* makes at most 3 attempts; an attempt that goes through is its last one
\* and the call has returned right after it; a sleep follows a failed first
\* or second attempt only, so a call sleeps at most twice, never after the
\* third attempt, and never while it holds the connection lock; the call
\* raises only when all 3 attempts have failed.
C18_PublishTerminates ==
    /\ [](\A p \in Publishers : WithinSchedule(p))
    /\ [][ \A p \in Publishers :
             /\ sleep(p) =>
                   /\ connection_lock # p
                   /\ Len(pubs[p].outcomes) < MAX_RETRIES
                   /\ pubs'[p].pc = "lock"
             /\ (\E ok \in BOOLEAN : attempt_publish(p, ok)) =>
                   /\ \A a \in 1..Len(pubs[p].outcomes) : ~pubs[p].outcomes[a]
                   /\ connection_lock' = 0 ]_vars
    /\ \A p \in Publishers :
          Publishing(p) ~> pubs[p].pc \in {"returned", "raised"}

\* one thread has raised after three failed attempts and two sleeps while
\* the other has returned after its second attempt
C18_Witness ==
    \E p, q \in Publishers :
        /\ pubs[p].pc = "raised"
        /\ pubs[p].outcomes = <<FALSE, FALSE, FALSE>>
        /\ pubs[p].sleeps = 2
        /\ pubs[q].pc = "returned"
        /\ pubs[q].outcomes = <<FALSE, TRUE>>
        /\ pubs[q].sleeps = 1

\* C19 as written: every event that reaches the event bus carries a numeric
\* timestamp in its payload. Violated: match.found is handed to the bus by
\* _create_matches itself, with the payload as the service built it; only
\* the events of publish_event (report.created here) carry the timestamp.
C19_Original ==
    \A e \in events :
        /\ "timestamp" \in DOMAIN e.payload
        /\ e.payload["timestamp"] \in Nat

\* C20 as written: after logout returned True for a token, the token is
\* blacklisted, and authentication with it refused, at every time before its
\* exp claim, and the blacklist entry is gone once the token has expired.
\* Violated: the entry outlives the token by the offset of local time from
\* UTC.
C20_Original ==
    \A token \in loggedOut :
        /\ now < token.exp => is_token_blacklisted(token)
        /\ authLast.op = "authenticate" /\ authLast.token = token =>
              authLast.result = "AuthenticationFailed"
        /\ now >= token.exp => ~is_token_blacklisted(token)

\* C21 as written: whatever the interleaving of verify_otp calls on one
\* request id, at most MAX_ATTEMPTS comparisons are made against the code
\* issued for it. Violated: calls that read the session before another call
\* has written its increment back all pass the attempts check and each
\* compares a code, and a late write-back lowers the stored counter again.
C21_Original ==
    \A r \in LoginIds : compared[r] <= MAX_ATTEMPTS

\* thread t is inside get_or_create or behind it
LoggingIn(t) == verifs[t].pc \in {"get", "create", "get_again", "finish"}

\* C30: when first logins of one phone run at once, the phone has at most
\* one User row at any time and exactly one once a login has got its user;
\* every verify_otp that ends successfully returns that row, whether it
\* created the row or lost the race for the insert; and a call that has
\* found its code right fails nowhere on the way: the read after a lost
\* insert finds the row, and the call ends with success.
C30_OneUserPerPhone ==
    /\ [](\A u1, u2 \in users : u1.phone = u2.phone => u1 = u2)
    /\ [](\A t \in Verifiers :
            /\ verifs[t].pc = "get_again" =>
                  \E u \in users : u.phone = verifs[t].otp_data.phone
            /\ verifs[t].pc = "finish" =>
                  /\ verifs[t].user \in users
                  /\ verifs[t].user.phone = verifs[t].otp_data.phone
                  /\ \A u \in users :
                        u.phone = verifs[t].otp_data.phone => u = verifs[t].user)
    /\ [][ \A t \in Verifiers :
             LoggingIn(t) /\ verifs'[t] # verifs[t] =>
                \/ LoggingIn(t)'
                \/ /\ verify_finish(t)
                   /\ okCount'[verifs[t].request_id] = okCount[verifs[t].request_id] + 1
                   /\ verifs[t].user \in users' ]_vars

\* two first logins of one phone, on two request ids, have got the same
\* user: one created the row, the other lost the race for the insert
C30_Witness ==
    \E t1, t2 \in Verifiers :
        /\ verifs[t1].pc = "finish"
        /\ verifs[t2].pc = "finish"
        /\ verifs[t1].request_id # verifs[t2].request_id
        /\ verifs[t1].created
        /\ verifs[t2].conflict
        /\ verifs[t1].user = verifs[t2].user
        /\ Cardinality(users) = 1

\* the step is verify_otp(rid, otp): its result names the call
VerifyStep(rid, otp) ==
    /\ last'.op = "verify"
    /\ last'.rid = rid
    /\ last'.otp = otp
    /\ verify_otp(rid, otp)

\* the step is resend_otp(rid): its result names the call
ResendStep(rid) ==
    /\ last'.op = "resend"
    /\ last'.rid = rid
    /\ resend_otp(rid)

\* C22: a verify_otp that finds a live session with attempts left writes the
\* session back with attempts one higher and the full TTL, the other fields
\* as they were. When the code supplied differs from the code of the session
\* the call returns INVALID_OTP and that session stays in the cache, the
\* guess counted; when it is the code of the session the call succeeds.
C22_GuessCounts ==
    [][ \A rid \in RequestIds, otp \in Codes :
          LET d == cache_get(otpStore, rid) IN
          (VerifyStep(rid, otp) /\ d # NoEntry /\ d.attempts < MAX_ATTEMPTS) =>
              IF otp # d.otp
              THEN /\ last' = Result("verify", rid, otp, "INVALID_OTP", FALSE)
                   /\ otpStore' = [otpStore EXCEPT ![rid] =
                         [otp |-> d.otp, phone |-> d.phone,
                          attempts |-> d.attempts + 1, resends |-> d.resends,
                          expiry |-> now + OTP_EXPIRY_SECONDS]]
                   /\ users' = users
              ELSE last' = Result("verify", rid, otp, "OK", FALSE) ]_vars

\* a wrong code has been answered INVALID_OTP and the session is still
\* there, with the second guess counted and the resends it had
C22_Witness ==
    /\ last.op = "verify"
    /\ last.code = "INVALID_OTP"
    /\ cache_get(otpStore, last.rid) # NoEntry
    /\ otpStore[last.rid].otp # last.otp
    /\ otpStore[last.rid].attempts = 2
    /\ otpStore[last.rid].resends = 1

\* what resend_otp does to a live session, but for the code it stores: a
\* session with resends left gets a code, attempts 0, resends one higher and
\* the full TTL, and when the event went out the call returns OK with
\* remaining = MAX_RESENDS - resends of the session stored; a session with
\* no resends left is answered MAX_RESENDS_REACHED and stays as it is
ResendEffect(rid) ==
    LET d == cache_get(otpStore, rid) IN
    (ResendStep(rid) /\ d # NoEntry) =>
        IF d.resends >= MAX_RESENDS
        THEN /\ last' = Result("resend", rid, "", "MAX_RESENDS_REACHED", FALSE)
             /\ otpStore' = otpStore
        ELSE /\ last'.op = "resend" /\ last'.rid = rid
             /\ last'.code \in {"OK", "PUBLISH_ERROR"}
             /\ otpStore' = [otpStore EXCEPT ![rid] =
                   [otp |-> last'.otp, phone |-> d.phone, attempts |-> 0,
                    resends |-> d.resends + 1,
                    expiry |-> now + OTP_EXPIRY_SECONDS]]
             /\ last'.code = "OK" =>
                   /\ last'.published
                   /\ last'.remaining = MAX_RESENDS - otpStore'[rid].resends
                   /\ last'.remaining >= 0

\* verify_otp succeeds with the code stored in the session and no other
VerifiesStoredCodeOnly ==
    \A rid \in RequestIds, otp \in Codes :
        (VerifyStep(rid, otp) /\ last'.code = "OK") =>
            /\ cache_get(otpStore, rid) # NoEntry
            /\ otp = otpStore[rid].otp

\* C23 as written: a successful resend_otp has the effect above, and the
\* code issued before it can no longer be verified, that is, the code it
\* stores is another one. Violated: the code is drawn without regard to the
\* code it replaces and can come out the same.
C23_Original ==
    [][ /\ \A rid \in RequestIds : ResendEffect(rid)
        /\ VerifiesStoredCodeOnly
        /\ \A rid \in RequestIds :
              (ResendStep(rid) /\ last'.code = "OK") =>
                  otpStore'[rid].otp # otpStore[rid].otp ]_vars

\* C23 amended: a successful resend_otp stores a newly drawn code, sets
\* attempts to 0, raises resends by 1, refreshes the TTL to the full window,
\* publishes one otp.send_requested with the new code and returns remaining
\* = MAX_RESENDS - resends; at resends >= MAX_RESENDS it returns
\* MAX_RESENDS_REACHED; and after a successful resend only the new code
\* verifies, so the code issued before can no longer be verified unless the
\* new code came out equal to it.
C23_ResendReplacesCode ==
    [][ /\ \A rid \in RequestIds : ResendEffect(rid)
        /\ VerifiesStoredCodeOnly
        /\ \A rid \in RequestIds, otp \in Codes :
              ( /\ last.op = "resend" /\ last.code = "OK" /\ last.rid = rid
                /\ VerifyStep(rid, otp)
                /\ otp # last.otp )
              => last'.code # "OK" ]_vars

\* the last of the resends of a session has succeeded: the third code is in
\* the cache, no guess is counted and no resend remains
C23_Witness ==
    /\ last.op = "resend"
    /\ last.code = "OK"
    /\ last.remaining = 0
    /\ cache_get(otpStore, last.rid) # NoEntry
    /\ otpStore[last.rid].otp = last.otp
    /\ otpStore[last.rid].resends = MAX_RESENDS
    /\ otpStore[last.rid].attempts = 0

\* C24 as written: no verify_otp succeeds more than OTP_EXPIRY_SECONDS after
\* the code it verifies was issued; stated for the code send_otp issued, in
\* a session that was never resent. Violated: every verify_otp that counts a
\* guess writes the session back with the full TTL, so two wrong guesses
\* keep the session alive for a right one later than OTP_EXPIRY_SECONDS
\* after send_otp.
C24_Original ==
    [][ \A rid \in RequestIds, otp \in Codes :
          ( /\ VerifyStep(rid, otp)
            /\ last'.code = "OK"
            /\ otpStore[rid] # NoEntry
            /\ otpStore[rid].resends = 0 )
          => now <= sentAt[rid].at + OTP_EXPIRY_SECONDS ]_vars

\* the request id was never handed out, or was verified, or was handed out
\* and never verified but its session is gone: its TTL has elapsed
NoSession(rid) ==
    \/ rid > issued
    \/ okCount[rid] >= 1
    \/ rid <= issued /\ okCount[rid] = 0 /\ otpStore[rid] = NoEntry

\* the step changed no cache entry, created no user and published no event
NothingDone ==
    /\ otpStore' = otpStore
    /\ rateStore' = rateStore
    /\ blacklist' = blacklist
    /\ users' = users
    /\ ~last'.published

\* C25: verify_otp and resend_otp on a request id that was never issued,
\* was verified or has expired return INVALID_REQUEST_ID, and on no other; a
\* live session with attempts = MAX_ATTEMPTS is answered
\* MAX_ATTEMPTS_REACHED by verify_otp and one with resends = MAX_RESENDS is
\* answered MAX_RESENDS_REACHED by resend_otp; and a call answered with one
\* of the three changes no cache entry, creates no user and publishes no
\* event.
C25_RefusalsChangeNothing ==
    [][ /\ \A rid \in RequestIds, otp \in Codes :
              VerifyStep(rid, otp) =>
                 /\ last'.code = "INVALID_REQUEST_ID" <=> NoSession(rid)
                 /\ (~NoSession(rid) /\ otpStore[rid].attempts >= MAX_ATTEMPTS)
                       => last'.code = "MAX_ATTEMPTS_REACHED"
                 /\ last'.code \in {"INVALID_REQUEST_ID", "MAX_ATTEMPTS_REACHED"}
                       => NothingDone
        /\ \A rid \in RequestIds :
              ResendStep(rid) =>
                 /\ last'.code = "INVALID_REQUEST_ID" <=> NoSession(rid)
                 /\ (~NoSession(rid) /\ otpStore[rid].resends >= MAX_RESENDS)
                       => last'.code = "MAX_RESENDS_REACHED"
                 /\ last'.code \in {"INVALID_REQUEST_ID", "MAX_RESENDS_REACHED"}
                       => NothingDone ]_vars

\* resend_otp was called on a request id whose session had expired
\* unverified, and answered INVALID_REQUEST_ID
C25_Witness ==
    /\ last = Result("resend", 1, "", "INVALID_REQUEST_ID", FALSE)
    /\ issued >= 1
    /\ okCount[1] = 0
    /\ otpStore[1] = NoEntry
    /\ users = {}

\* the codes issued to a phone during the RATE_LIMIT_TTL seconds before now
TrailingHour(phone) ==
    { i \in 1..Len(sentAt) :
        sentAt[i].phone = phone /\ sentAt[i].at > now - RATE_LIMIT_TTL }

\* C26 as written: send_otp refuses a call for a phone if and only if at
\* least 5 codes were issued to the phone during the 3600 seconds before
\* the call. Violated: the counter is not a window. Each call let through
\* restarts the TTL of the counter, and the counter goes on counting the
\* codes issued more than an hour ago, so a call is refused while fewer than
\* 5 codes were issued in the trailing hour.
C26_Original ==
    [][ (SendCodeLogged /\ last'.code # "INVALID_PHONE") =>
            ( last'.code = "TOO_MANY_REQUESTS"
              <=> Cardinality(TrailingHour(full_phone(CountryCode, Phone9)))
                      >= RATE_LIMIT_MAX ) ]_vars

\* the phone send_otp was called with, read back from a stored phone
TypedPhone(stored) == DropFirst(stored, Len(CountryCode))

\* two stored phones are spellings of one number
SameNumber(p, q) == local_number(TypedPhone(p)) = local_number(TypedPhone(q))

\* C27 as written: every spelling of one number that send_otp accepts is
\* stored as the same phone value, so the sessions of one number carry one
\* phone (and with it one rate-limit key) and verify_otp resolves them to one
\* user row. Violated: send_otp stores country_code + phone as typed, the
\* stripping of _validate_phone is thrown away.
C27_Original ==
    /\ \A r1, r2 \in SessionIds :
         ( /\ otpStore[r1] # NoEntry
           /\ otpStore[r2] # NoEntry
           /\ SameNumber(otpStore[r1].phone, otpStore[r2].phone) )
         => otpStore[r1].phone = otpStore[r2].phone
    /\ \A u1, u2 \in users : SameNumber(u1.phone, u2.phone) => u1 = u2

\* 10 digits, the first of them 9
IsLocalNumber(s) ==
    /\ Len(s) = 10
    /\ s[1] = "9"
    /\ \A i \in 1..Len(s) : s[i] \in Digits

\* nothing, 98 or +98, then any number of zeros
IsPrefix(s) ==
    \E cc \in { <<>>, <<"9","8">>, <<"+","9","8">> } :
        /\ StartsWith(s, cc)
        /\ \A i \in (Len(cc) + 1)..Len(s) : s[i] = "0"

\* a phone that is 10 digits with leading digit 9, optionally preceded by a
\* country prefix or leading zeros
WellFormedPhone(phone) ==
    \E k \in 0..Len(phone) :
        /\ IsPrefix(SubSeq(phone, 1, k))
        /\ IsLocalNumber(DropFirst(phone, k))

\* C28 as written: send_otp accepts every phone that is 10 digits with
\* leading digit 9, optionally preceded by a country prefix or leading
\* zeros, answers INVALID_PHONE to every other input, and an INVALID_PHONE
\* call leaves the counter, the sessions and the event bus alone. Violated:
\* a bare 10-digit number that begins with 98 loses its first two digits to
\* the prefix stripping and is refused.
C28_Original ==
    [][ \A phone \in PhoneSpellings :
          ( /\ send_otp(phone, CountryCode)
            /\ UNCHANGED <<idemVars, matchVars, scoreVars, busVars, authVars, verifyVars>> )
          => /\ last'.code = "INVALID_PHONE" <=> ~WellFormedPhone(phone)
             /\ last'.code = "INVALID_PHONE" =>
                    UNCHANGED <<otpStore, rateStore, issued, sentAt, busVars>> ]_vars

\* a token that is malformed, has an invalid signature, has no expiry claim
\* or is already expired
BadToken(token) ==
    \/ ~token.parses
    \/ ~token.signed
    \/ token.exp = NoneInt
    \/ now >= token.exp

\* a blacklist entry whose TTL has not elapsed
LiveEntry(token) == blacklist[token] # NoEntry /\ now < blacklist[token].expiry

\* C29: logout returns False and writes no blacklist entry for a token that
\* is malformed, has an invalid signature, has no expiry claim or is already
\* expired; is_token_blacklisted returns True exactly for the tokens with a
\* live blacklist entry and changes nothing.
C29_LogoutRefusesBadTokens ==
    [][ /\ \A token \in Tokens :
             (logout(token) /\ BadToken(token)) =>
                 /\ authLast'.result = "False"
                 /\ UNCHANGED <<blacklist, loggedOut>>
        /\ IsTokenBlacklisted =>
             /\ authLast'.result = "True" <=> LiveEntry(authLast'.token)
             /\ UNCHANGED <<blacklist, loggedOut, otpVars, idemVars, matchVars,
                            scoreVars, busVars, verifyVars>> ]_vars

\* logout has just refused the token without an expiry claim while another
\* token is on the blacklist
C29_Witness ==
    /\ authLast.op = "logout"
    /\ authLast.result = "False"
    /\ authLast.token.parses
    /\ authLast.token.signed
    /\ authLast.token.exp = NoneInt
    /\ \E t \in Tokens : LiveEntry(t)

\* the Match rows of the next state that the step inserted
Inserted == { m \in matches' : \A o \in matches : o.id # m.id }

CreatedFor(r) ==
    { IF m.report_lost = r THEN m.report_found ELSE m.report_lost :
        m \in { x \in matches : \E i \in 1..Len(runs[r].created) :
                                    x.id = runs[r].created[i] } }

\* the candidates of the list find_matches_for_report handed to
\* _find_initial_matches, empty when it raised
ReturnedFor(r) ==
    { runs[r].initial_matches[i].report_id : i \in 1..Len(runs[r].initial_matches) }

\* the run of report r is behind _find_initial_matches
Matched(r) == runs[r].pc \in {"publish", "done"}

\* a list of candidates is sorted by falling score, the newer report first
\* among equal scores, and no longer than the cap
Ranked(list) ==
    /\ Len(list) <= max_matches
    /\ \A i, j \in 1..Len(list) :
          i < j =>
              \/ list[i].similarity_score > list[j].similarity_score
              \/ /\ list[i].similarity_score = list[j].similarity_score
                 /\ list[i].report_id > list[j].report_id

C33_Original ==
    \A r \in ReportIds :
        (Matched(r) /\ runs[r].aborted = "EventBusError") =>
            /\ runs[r].created # <<>>
            /\ ReturnedFor(r) = CreatedFor(r)

\* C34 as written: when the event bus raises on the publish of
\* otp.send_requested, send_otp and resend_otp still return their success
\* result with the request id, and the session they stored can be verified.
\* Violated: the session is stored, but the error of the event bus leaves
\* send_otp and resend_otp, and the caller gets no result and no request id.
C34_Original ==
    [][ /\ (SendCode /\ issued' > issued) =>
              /\ last'.code = "OK"
              /\ last'.rid = issued'
              /\ cache_get(otpStore', issued') # NoEntry
        /\ \A rid \in RequestIds :
              (ResendStep(rid) /\ otpStore' # otpStore) =>
                  /\ last'.code = "OK"
                  /\ last'.rid = rid
                  /\ cache_get(otpStore', rid) # NoEntry ]_vars

\* the threads inside the with block of publish
InCriticalSection == { p \in Publishers : pubs[p].pc = "try" }

\* C35: a thread that sleeps for backoff never holds the connection lock and
\* a sleep leaves the lock as it was; the lock is held exactly by the one
\* thread inside the with block, so no two threads are inside it together;
\* the connection and channel change only in a step of the lock holder that
\* leaves the block, or in close while no thread is inside
C35_SleepOutsideLock ==
    /\ [](
          /\ \A p \in Publishers :
                /\ pubs[p].pc = "sleep" => connection_lock # p
                /\ pubs[p].pc = "try" <=> connection_lock = p
          /\ Cardinality(InCriticalSection) <= 1
          /\ connection_lock = 0 <=> InCriticalSection = {}
       )
    /\ [][
          /\ \A p \in Publishers :
                sleep(p) =>
                    (connection_lock # p /\ connection_lock' = connection_lock)
          /\ connection' # connection =>
                \/ /\ connection_lock \in Publishers
                   /\ InCriticalSection = {connection_lock}
                   /\ connection_lock' = 0
                   /\ \A q \in Publishers \ {connection_lock} : pubs'[q] = pubs[q]
                \/ close /\ InCriticalSection = {}
       ]_vars

\* one thread sleeps after its failed first attempt, which closed the
\* connection, while the other has taken the lock after that, published on a
\* new connection and returned
C35_Witness ==
    \E p, q \in Publishers :
        /\ pubs[p].pc = "sleep"
        /\ pubs[p].outcomes = <<FALSE>>
        /\ pubs[q].pc = "returned"
        /\ pubs[q].outcomes = <<TRUE>>
        /\ connection # NoConnection
        /\ connection_lock = 0

\* C36: the connection held between attempts is either unset, with its
\* channel, or open with the exchange, the queue and the binding declared in
\* that order. An attempt that goes through has published either on the
\* connection it found, which then passed the probe, or on one it rebuilt
\* with all three declarations because none was set or the probe failed; an
\* attempt that fails leaves both connection and channel unset.
C36_ProbedAndDeclared ==
    /\ [](\/ connection = NoConnection
          \/ /\ connection.connection = "open"
             /\ connection.channel = "open"
             /\ connection.declared = Topology)
    /\ [][ \A p \in Publishers, healthy, sent \in BOOLEAN, reach \in Reaches :
             try_publish(p, healthy, reach, sent) =>
                 IF pubs'[p].pc = "returned" THEN
                     /\ sent
                     /\ connection'.declared = Topology
                     /\ connection'.channel = "open"
                     /\ \/ /\ connection # NoConnection
                           /\ healthy
                           /\ connection' = connection
                        \/ /\ connection = NoConnection \/ ~healthy
                           /\ reach = Len(Topology) + 1
                 ELSE
                     /\ connection' = NoConnection
                     /\ pubs'[p].last_error = Len(pubs'[p].outcomes) ]_vars

\* a thread whose first attempt failed has returned from its second, which
\* found no connection, rebuilt it and published on it, and a later call of
\* the other thread has published on that connection after its probe
C36_Witness ==
    \E p, q \in Publishers :
        /\ pubs[p].pc = "returned"
        /\ pubs[p].outcomes = <<FALSE, TRUE>>
        /\ pubs[q].pc = "returned"
        /\ pubs[q].outcomes = <<TRUE>>
        /\ pubs[q].calls = 2
        /\ connection.declared = Topology

\* C37 as written: a second run of find_matches_for_report for a report,
\* with no report created or changed since the first, keeps no candidate,
\* inserts no Match and publishes no match.found. Violated: a first run that
\* the event bus cut short has left the candidates behind the failing one
\* without a Match, and the second run inserts and publishes them.
C37_Original ==
    [][ \A r \in DOMAIN runs :
            runs[r].again /\ runs[r].pc \in {"scan", "create"} =>
                /\ find_matches_for_report(r) => runs'[r].todo = <<>>
                /\ matches' = matches
                /\ \A e \in events' : e.event_type # "match.found" ]_vars

\* the codes of the history that were sent to the phone with success
SentOk(phone) ==
    { i \in 1..Len(sentAt) : sentAt[i].phone = phone /\ sentAt[i].code = "OK" }

\* C38 as written: a SendCode refused with TOO_MANY_REQUESTS leaves the
\* rate-limit counter and its TTL as they were, and a phone is not rate
\* limited once 3600 seconds have passed since its last successful
\* SendCode. Violated: a SendCode whose event the bus refuses has already
\* counted and restarted the TTL, so the phone stays limited for 3600
\* seconds after that call.
C38_Original ==
    /\ [][ \A phone \in PhoneInputs :
              send_otp(phone, CountryCode) /\ last'.code = "TOO_MANY_REQUESTS"
                  => rateStore' = rateStore ]_vars
    /\ [](\A phone \in FullPhones :
              (/\ SentOk(phone) # {}
               /\ \A i \in SentOk(phone) : now >= sentAt[i].at + RATE_LIMIT_TTL)
                  => ~is_rate_limited(phone))

\* the comparisons a session can still take: the guesses left before the
\* next resend, and MAX_ATTEMPTS more after each resend left
ComparisonsLeft(data) ==
    MAX_ATTEMPTS * (MAX_RESENDS - data.resends) + (MAX_ATTEMPTS - data.attempts)

\* C39: with the calls made one after the other, a session in the cache has
\* 0 <= attempts <= MAX_ATTEMPTS and 0 <= resends <= MAX_RESENDS. A session
\* starts with MAX_ATTEMPTS * (MAX_RESENDS + 1) = 12 comparisons left, no call
\* raises that number, a request id that has lost its session gets none
\* again, and every verify_otp that compares a code takes one away or ends
\* the session: at most 12 codes are compared against one request id.
C39_CountersBounded ==
    /\ [](\A rid \in SessionIds :
              otpStore[rid] # NoEntry =>
                  /\ otpStore[rid].attempts \in 0..MAX_ATTEMPTS
                  /\ otpStore[rid].resends \in 0..MAX_RESENDS)
    /\ [][ \A rid \in SessionIds :
              /\ otpStore[rid] = NoEntry /\ otpStore'[rid] # NoEntry =>
                    /\ rid = issued + 1
                    /\ ComparisonsLeft(otpStore'[rid]) =
                           MAX_ATTEMPTS * (MAX_RESENDS + 1)
              /\ otpStore[rid] # NoEntry /\ otpStore'[rid] # NoEntry =>
                    ComparisonsLeft(otpStore'[rid]) <= ComparisonsLeft(otpStore[rid])
              /\ \A otp \in Codes :
                    (/\ VerifyStep(rid, otp)
                     /\ last'.code \notin {"INVALID_REQUEST_ID", "MAX_ATTEMPTS_REACHED"})
                        => /\ otpStore[rid] # NoEntry
                           /\ ComparisonsLeft(otpStore[rid]) >= 1
                           /\ \/ otpStore'[rid] = NoEntry
                              \/ ComparisonsLeft(otpStore'[rid]) =
                                     ComparisonsLeft(otpStore[rid]) - 1 ]_vars

\* the twelfth wrong code has been compared: three guesses after each of
\* three resends, and the session takes neither a guess nor a resend more
C39_Witness ==
    /\ last.op = "verify"
    /\ last.code = "INVALID_OTP"
    /\ otpStore[last.rid] # NoEntry
    /\ otpStore[last.rid].attempts = MAX_ATTEMPTS
    /\ otpStore[last.rid].resends = MAX_RESENDS
    /\ ComparisonsLeft(otpStore[last.rid]) = 0

\* the calls of execute for a match that have returned success
Rejected(match_id) ==
    { t \in Rejecters : /\ rejects[t].pc = "done"
                        /\ rejects[t].match_id = match_id
                        /\ rejects[t].code = "OK" }

\* C40 as written: of the calls the lost-report owner makes at the same
\* time on one pending Match, at most one returns success and at most one
\* publishes match.rejected; a call that found the Match and has returned
\* anything else has returned ALREADY_REJECTED. Violated: two calls read the Match while it is
\* pending, both pass the status check, both save and both publish.
C40_Original ==
    \A m \in matches :
        /\ Cardinality(Rejected(m.id)) <= 1
        /\ Cardinality({ t \in Rejected(m.id) : rejects[t].published }) <= 1
        /\ \A t \in Rejecters :
              (/\ rejects[t].pc = "done"
               /\ rejects[t].match_id = m.id
               /\ rejects[t].user_id = reports[m.report_lost].user_id
               /\ rejects[t].code \notin {"OK", "MATCH_NOT_FOUND"})
                  => rejects[t].code = "ALREADY_REJECTED"


====
